---- MODULE Spec2Model ----
(***************************************************************************)
(* Model of supsm/dictionary: the offline dictionary file engine           *)
(* (src/src/sdict_file.h, class dictionary_file) and the batch build       *)
(* pipeline (src/src/dict_parse.h, http_worker / file_read_worker / main). *)
(*                                                                         *)
(* The file on disk is a sequence of bytes; every integer the engine       *)
(* writes goes through the little-endian encoders and every integer it     *)
(* reads comes back through the decoders.  The 64-bit FNV-1a hash is kept  *)
(* as its 8 little-endian bytes and computed exactly, byte by byte.        *)
(***************************************************************************)
EXTENDS Integers, Sequences, FiniteSets, TLC

(***************************************************************************)
(* Bytes and little-endian integers                                        *)
(***************************************************************************)
Byte == 0..255

\* one bit-wise exclusive or of two bytes (hash ^= b)
RECURSIVE XorBits(_, _, _)
XorBits(a, b, n) ==
    IF n = 0 THEN 0
    ELSE (((a % 2) + (b % 2)) % 2) + 2 * XorBits(a \div 2, b \div 2, n - 1)

Xor8(a, b) == XorBits(a, b, 8)

\* write_uint32_LE: the four bytes put for num, lowest first
write_uint32_LE(num) ==
    << num % 256, (num \div 256) % 256, (num \div 65536) % 256, (num \div 16777216) % 256 >>

\* A 32-bit value read from disk is kept as its four bytes; U32Small says the
\* value is below 2^16 (every length of a file of the model is), and only
\* then is it turned into a number.
U32Small(b) == b[3] = 0 /\ b[4] = 0
U32Val(b) == b[1] + 256 * b[2]
U32Zero(b) == b = << 0, 0, 0, 0 >>
\* value of b > n, for 0 <= n < 2^16
U32Gt(b, n) == ~U32Small(b) \/ U32Val(b) > n

(***************************************************************************)
(* FNV-1a-64 on the 8 little-endian bytes of the hash                      *)
(***************************************************************************)
\* 0xcbf29ce484222325, lowest byte first
fnv_init == << 37, 35, 34, 132, 228, 156, 242, 203 >>

\* hash *= 0x100000001b3 (mod 2^64): 0x100000001b3 = 2^40 + 435, so byte i of
\* the product is h[i] * 435 + h[i - 5] + carry
RECURSIVE FnvMulFrom(_, _, _)
FnvMulFrom(h, i, carry) ==
    IF i > 8 THEN << >>
    ELSE LET t == (h[i] * 435) + (IF i > 5 THEN h[i - 5] ELSE 0) + carry
         IN  << t % 256 >> \o FnvMulFrom(h, i + 1, t \div 256)

FnvStep(h, b) == FnvMulFrom([h EXCEPT ![1] = Xor8(h[1], b)], 1, 0)

RECURSIVE FnvFold(_, _, _)
FnvFold(data, i, h) ==
    IF i > Len(data) THEN h ELSE FnvFold(data, i + 1, FnvStep(h, data[i]))

\* fnv1a(data, init)
fnv1a_from(data, init) == FnvFold(data, 1, init)
fnv1a(data) == fnv1a_from(data, fnv_init)

(***************************************************************************)
(* Inputs of the model                                                     *)
(***************************************************************************)
\* bound on the number of entries of the in-memory word list
MaxWords == 3

init_reserved_words == 32
init_words_sect_size == 256
batch_size == 4096

\* "SDICT\x01\x00"
magic_bytes == << 83, 68, 73, 67, 84, 1, 0 >>

\* a key whose length with its terminator is exactly init_words_sect_size
BigKey == [i \in 1..(init_words_sect_size - 1) |-> 99]
\* the keys add_word is called with: "a", "b" and the long key
Keys == { << 97 >>, << 98 >>, BigKey }
\* the payloads add_word is called with: "x", "y" and the empty payload
Defs == { << 120 >>, << 121 >>, << >> }

\* std::string operator<=>: byte-wise lexicographic, a proper prefix is less
\* (the first position in lo..hi where a and b differ, 0 when there is none,
\* is found by halving the range)
RECURSIVE FirstDiff(_, _, _, _)
FirstDiff(a, b, lo, hi) ==
    IF lo > hi \/ SubSeq(a, lo, hi) = SubSeq(b, lo, hi) THEN 0
    ELSE IF lo = hi THEN lo
    ELSE LET mid == (lo + hi) \div 2
             l == FirstDiff(a, b, lo, mid)
         IN  IF l # 0 THEN l ELSE FirstDiff(a, b, mid + 1, hi)

StrLess(a, b) ==
    LET n == IF Len(a) < Len(b) THEN Len(a) ELSE Len(b)
        i == FirstDiff(a, b, 1, n)
    IN  IF i = 0 THEN Len(a) < Len(b) ELSE a[i] < b[i]

(***************************************************************************)
(* Files and the stream                                                    *)
(***************************************************************************)
\* what a path holds: nothing, a regular file with its bytes, or something
\* that is not a regular file (a directory)
NoFile == [exists |-> FALSE, regular |-> FALSE, bytes |-> << >>]
MkFile(b) == [exists |-> TRUE, regular |-> TRUE, bytes |-> b]
NotAFile == [exists |-> TRUE, regular |-> FALSE, bytes |-> << >>]

Zeros(n) == [i \in 1..n |-> 0]

\* the bytes of a file after writing w at 0-based position pos (a write past
\* the end leaves a zero-filled hole)
PutAt(b, pos, w) ==
    IF pos >= Len(b) THEN b \o Zeros(pos - Len(b)) \o w
    ELSE SubSeq(b, 1, pos) \o w \o SubSeq(b, pos + Len(w) + 1, Len(b))

\* n bytes at 0-based position pos; CanGet says the read does not hit EOF
CanGet(b, pos, n) == pos >= 0 /\ pos + n <= Len(b)
GetAt(b, pos, n) == SubSeq(b, pos + 1, pos + n)

\* read_uint32_LE / read_uint64_LE: the bytes as stored
read_uint32_LE(b, pos) == GetAt(b, pos, 4)
read_uint64_LE(b, pos) == GetAt(b, pos, 8)
\* write_uint64_LE of a hash puts its 8 bytes, lowest first
write_uint64_LE(hash) == hash

\* section offsets
inds_section_offset == Len(magic_bytes) + 4 + 4 + 4
words_section_offset(reserved_words_) == inds_section_offset + reserved_words_ * 4 * 2
defs_section_offset(reserved_words_, words_sect_size_) ==
    words_section_offset(reserved_words_) + words_sect_size_

(***************************************************************************)
(* The dictionary_file object and the context an operation runs in         *)
(*   o    : the object's fields                                            *)
(*   main : the file at `filename`;  tmp : the file at `filename`.tmp      *)
(*   st   : "ok", "abort" (a failed assert) or the message of the          *)
(*          exception in flight;   ret : the value returned                *)
(***************************************************************************)
NONE == -1

LogicErrors == { "No associated file. Call open(string_view) first",
                 "Repeated words were inserted" }

\* dictionary_file(): no associated file
NewObject(dedup) ==
    [ file_open_type |-> "no_file", failbit |-> FALSE,
      reserved_words |-> 0, words_sect_size |-> 0,
      words |-> << >>, first_new_word |-> NONE,
      existing_defs |-> {}, do_dedup |-> dedup, created_file |-> FALSE ]

\* ndebug: the build defines NDEBUG, so a failed assert is not evaluated
Ctx(o, main, tmp, ndebug) ==
    [o |-> o, main |-> main, tmp |-> tmp, ndebug |-> ndebug, st |-> "ok", ret |-> FALSE]
Throw(c, msg) == [c EXCEPT !.st = msg]
Ret(c, v) == [c EXCEPT !.ret = v]
Good(c) == c.st = "ok"

\* check_file after a read that could not be satisfied: the stream keeps its
\* fail state until the file is opened again
ReadFailed(c) ==
    [c EXCEPT !.o.failbit = TRUE,
              !.st = IF c.o.failbit THEN "File I/O error" ELSE "Unexpected EOF"]

\* a read of n bytes at pos on `file` succeeds
FileCanGet(c, pos, n) == ~c.o.failbit /\ c.main.exists /\ CanGet(c.main.bytes, pos, n)

\* file.write / put at pos on `file`: nothing is written on a failed stream
FilePut(c, pos, w) ==
    IF c.o.failbit \/ ~c.main.exists THEN c
    ELSE [c EXCEPT !.main.bytes = PutAt(c.main.bytes, pos, w)]

open_in(c) ==
    IF c.o.file_open_type = "read" THEN c
    ELSE IF ~c.main.exists
         THEN [c EXCEPT !.o.failbit = TRUE, !.st = "File I/O error"]
         ELSE [c EXCEPT !.o.failbit = FALSE, !.o.file_open_type = "read"]

open_out(c) ==
    [c EXCEPT !.main = MkFile(<< >>), !.o.failbit = FALSE, !.o.file_open_type = "write"]

open_in_out(c) ==
    IF c.o.file_open_type = "read_write" THEN c
    ELSE IF ~c.main.exists
         THEN [c EXCEPT !.o.failbit = TRUE, !.st = "File I/O error"]
         ELSE [c EXCEPT !.o.failbit = FALSE, !.o.file_open_type = "read_write"]

(***************************************************************************)
(* The in-memory index                                                     *)
(***************************************************************************)
word_info(word, def_ind) == [word |-> word, def_ind |-> def_ind]

\* total bytes of the keys of ws[from..to], each with its terminator
RECURSIVE WordsLen(_, _, _)
WordsLen(ws, from, to) ==
    IF from > to THEN 0 ELSE Len(ws[from].word) + 1 + WordsLen(ws, from + 1, to)

\* std::sort of a short range (insertion sort, by key)
RECURSIVE InsertInto(_, _)
InsertInto(sorted, e) ==
    IF sorted = << >> THEN << e >>
    ELSE IF StrLess(e.word, sorted[Len(sorted)].word)
         THEN InsertInto(SubSeq(sorted, 1, Len(sorted) - 1), e) \o << sorted[Len(sorted)] >>
         ELSE Append(sorted, e)

RECURSIVE SortRange(_, _)
SortRange(ws, n) ==
    IF n = 0 THEN << >> ELSE InsertInto(SortRange(ws, n - 1), ws[n])

SortAll(ws) == SortRange(ws, Len(ws))

\* std::adjacent_find(...) != end
HasAdjacentDup(ws) == \E i \in 1..(Len(ws) - 1) : ws[i].word = ws[i + 1].word

\* the sorted tail left behind the first range
Merge_appending(a, b) == a \o b

\* std::inplace_merge: stable, the first range wins ties
RECURSIVE Merge(_, _)
Merge(a, b) ==
    IF a = << >> THEN b
    ELSE IF b = << >> THEN a
    ELSE IF StrLess(b[1].word, a[1].word)
         THEN << b[1] >> \o Merge(a, Tail(b))
         ELSE << a[1] >> \o Merge(Tail(a), b)

\* sort_words that leaves first_new_word as it was
sort_words_keeping_first_new_word(c) ==
    LET fnw == c.o.first_new_word
        pre == SubSeq(c.o.words, 1, fnw)
        Sorted(stl) ==
            IF HasAdjacentDup(stl)
            THEN Throw([c EXCEPT !.o.words = pre \o stl], "Repeated words were inserted")
            ELSE [c EXCEPT !.o.words = Merge(pre, stl)]
    IN  IF ~(0 <= fnw /\ fnw <= Len(c.o.words)) /\ ~c.ndebug THEN Throw(c, "abort")
        ELSE Sorted(SortAll(SubSeq(c.o.words, fnw + 1, Len(c.o.words))))

\* sort_words(): the tail is sorted, checked for repeated keys and merged
sort_words(c) ==
    LET fnw == c.o.first_new_word
        pre == SubSeq(c.o.words, 1, fnw)
        Sorted(stl) ==
            IF HasAdjacentDup(stl)
            THEN Throw([c EXCEPT !.o.words = pre \o stl], "Repeated words were inserted")
            ELSE [c EXCEPT !.o.words = Merge(pre, stl), !.o.first_new_word = NONE]
    IN  IF ~(0 <= fnw /\ fnw <= Len(c.o.words)) /\ ~c.ndebug THEN Throw(c, "abort")
        ELSE Sorted(SortAll(SubSeq(c.o.words, fnw + 1, Len(c.o.words))))

\* std::lower_bound on ws[first+1 .. first+len] (0-based first), by bisection
RECURSIVE LowerBound(_, _, _, _)
LowerBound(ws, word, first, len) ==
    IF len <= 0 THEN first
    ELSE LET half == len \div 2
             mid == first + half
         IN  IF StrLess(ws[mid + 1].word, word)
             THEN LowerBound(ws, word, mid + 1, len - half - 1)
             ELSE LowerBound(ws, word, first, half)

\* std::find in ws[from+1 .. Len(ws)] (0-based from); Len(ws) when absent
RECURSIVE LinearFind(_, _, _)
LinearFind(ws, word, from) ==
    IF from >= Len(ws) THEN Len(ws)
    ELSE IF ws[from + 1].word = word THEN from
    ELSE LinearFind(ws, word, from + 1)

\* a find_def_ind that searches the sorted words only and not the words
\* added since the last flush
find_def_ind_sorted_only(o, word) ==
    LET end_it == IF o.first_new_word = NONE THEN Len(o.words) ELSE o.first_new_word
        InSorted(it) ==
            IF it = end_it \/ o.words[it + 1].word # word THEN NONE
            ELSE o.words[it + 1].def_ind
    IN  InSorted(LowerBound(o.words, word, 0, end_it))

\* find_def_ind: NONE or the def_ind of word
find_def_ind(o, word) ==
    LET end_it == IF o.first_new_word = NONE THEN Len(o.words) ELSE o.first_new_word
        InTail(it2) == IF it2 = Len(o.words) THEN NONE ELSE o.words[it2 + 1].def_ind
        InSorted(it) ==
            IF it = end_it \/ o.words[it + 1].word # word
            THEN IF end_it = Len(o.words) THEN NONE
                 ELSE InTail(LinearFind(o.words, word, end_it))
            ELSE o.words[it + 1].def_ind
    IN  InSorted(LowerBound(o.words, word, 0, end_it))

contains(o, word) == find_def_ind(o, word) # NONE
num_words(o) == Len(o.words)

(***************************************************************************)
(* Definition records                                                      *)
(***************************************************************************)
\* existing_defs[size][hash]: the list of def_inds, << >> when there is none
DefsOf(existing_defs, size, hash) ==
    IF \E e \in existing_defs : e.size = size /\ e.hash = hash
    THEN (CHOOSE e \in existing_defs : e.size = size /\ e.hash = hash).inds
    ELSE << >>

HasSize(existing_defs, size) == \E e \in existing_defs : e.size = size

\* existing_defs[size][hash].push_back(def_ind)
PushDef(existing_defs, size, hash, def_ind) ==
    { e \in existing_defs : ~(e.size = size /\ e.hash = hash) }
      \cup { [size |-> size, hash |-> hash,
              inds |-> Append(DefsOf(existing_defs, size, hash), def_ind)] }

\* get_def_size_and_hash(def_ind, expected_size, defs_section_offset_):
\* ret = [size, hash]; size << 0,0,0,0 >> when the size is not the expected one
\* (expected_size is a 4-byte value, << 0,0,0,0 >> to skip the check)
get_def_size_and_hash(c, def_ind, expected_size, defs_section_offset_) ==
    LET def_off == defs_section_offset_ + def_ind
        Sized(size) ==
            IF U32Zero(size) THEN Throw(c, "Read 0 definition size. File may be corrupted")
            ELSE IF ~U32Zero(expected_size) /\ size # expected_size
                 THEN Ret(c, [size |-> << 0, 0, 0, 0 >>, hash |-> Zeros(8)])
                 ELSE IF ~FileCanGet(c, def_off + 4, 8) THEN ReadFailed(c)
                      ELSE Ret(c, [size |-> size,
                                   hash |-> read_uint64_LE(c.main.bytes, def_off + 4)])
    IN  IF ~FileCanGet(c, def_off, 4) THEN ReadFailed(c)
        ELSE Sized(read_uint32_LE(c.main.bytes, def_off))

\* read_def_batched(batch_ind, size, data_start_pos) on a file's bytes:
\* the number of bytes of the batch
BatchAmt(batch_ind, size) ==
    IF size - batch_ind * batch_size < batch_size
    THEN size - batch_ind * batch_size ELSE batch_size

\* the fold of fnv1a over the batches batch_ind.. of a definition of `size`
\* bytes whose data starts at data_start_pos (all batches readable)
RECURSIVE HashBatches(_, _, _, _, _)
HashBatches(b, batch_ind, size, data_start_pos, hash) ==
    IF batch_ind >= ((size - 1) \div batch_size) + 1 THEN hash
    ELSE HashBatches(b, batch_ind + 1, size, data_start_pos,
            fnv1a_from(GetAt(b, data_start_pos + batch_ind * batch_size,
                             BatchAmt(batch_ind, size)), hash))

\* hash_existing_def(def_ind): ret = the hash of the payload on disk
hash_existing_def(c, def_ind) ==
    LET def_off == defs_section_offset(c.o.reserved_words, c.o.words_sect_size) + def_ind
        Sized(size) ==
            IF U32Zero(size) THEN Throw(c, "Read 0 definition size. File may be corrupted")
            ELSE IF U32Gt(size, Len(c.main.bytes)) \/ ~FileCanGet(c, def_off + 12, U32Val(size))
                 THEN ReadFailed(c)
                 ELSE Ret(c, HashBatches(c.main.bytes, 0, U32Val(size), def_off + 12, fnv_init))
    IN  IF ~FileCanGet(c, def_off, 4) THEN ReadFailed(c)
        ELSE Sized(read_uint32_LE(c.main.bytes, def_off))

\* the loop of get_existing_def_ind over the candidates inds[i..]
RECURSIVE FirstHashMatch(_, _, _, _, _)
FirstHashMatch(c, inds, i, size, hash) ==
    LET Candidate(r) ==
            IF ~Good(r) THEN r
            ELSE IF ~U32Zero(r.ret.size) /\ r.ret.hash = hash THEN Ret(c, inds[i])
            ELSE FirstHashMatch(c, inds, i + 1, size, hash)
    IN  IF i > Len(inds) THEN Ret(c, NONE)
        ELSE Candidate(get_def_size_and_hash(c, inds[i], size,
                          defs_section_offset(c.o.reserved_words, c.o.words_sect_size)))

\* get_existing_def_ind(def): ret = NONE or the def_ind of a stored record
\* with the size and the header hash of def
get_existing_def_ind(c, def) ==
    LET Lookup(size, hash) ==
            IF HasSize(c.o.existing_defs, size)
            THEN FirstHashMatch(c, DefsOf(c.o.existing_defs, size, hash), 1, size, hash)
            ELSE Ret(c, NONE)
    IN  IF def = << >> /\ ~c.ndebug THEN Throw(c, "abort")
        ELSE Lookup(write_uint32_LE(Len(def)), fnv1a(def))

\* read_def_whole(def_ind, check_def): ret = the payload
read_def_whole(c, def_ind, check_def) ==
    LET def_off == defs_section_offset(c.o.reserved_words, c.o.words_sect_size) + def_ind
        Checked(hash, v) ==
            IF check_def /\ hash # fnv1a(v)
            THEN Throw(c, "Definition hash does not match. File may be corrupted")
            ELSE Ret(c, v)
        Sized(size, hash) ==
            IF U32Gt(size, Len(c.main.bytes)) \/ ~FileCanGet(c, def_off + 12, U32Val(size))
            THEN ReadFailed(c)
            ELSE Checked(hash, GetAt(c.main.bytes, def_off + 12, U32Val(size)))
    IN  IF ~FileCanGet(c, def_off, 4) THEN ReadFailed(c)
        ELSE IF ~FileCanGet(c, def_off + 4, 8) THEN ReadFailed(c)
        ELSE Sized(read_uint32_LE(c.main.bytes, def_off),
                   read_uint64_LE(c.main.bytes, def_off + 4))

\* find(word, check_def): ret = [found, def]
find(c, word, check_def) ==
    LET Read(r) == IF Good(r) THEN Ret(r, [found |-> TRUE, def |-> r.ret]) ELSE r
        Lookup(ind) ==
            IF ind = NONE THEN Ret(c, [found |-> FALSE, def |-> << >>])
            ELSE Read(read_def_whole(c, ind, check_def))
    IN  Lookup(find_def_ind(c.o, word))

(***************************************************************************)
(* Creating and reading a file                                             *)
(***************************************************************************)
\* a value past the end of every file of the model, standing for a 32-bit
\* value of 2^16 or more: an offset of that size reads EOF like the real one
Huge == 65536
U32Num(b) == IF U32Small(b) THEN U32Val(b) ELSE Huge
\* a < b as 32-bit values
U32Less(a, b) ==
    \E i \in 1..4 : a[i] < b[i] /\ \A j \in (i + 1)..4 : a[j] = b[j]

\* create_file without the words section
create_file_no_words_section(c) ==
    IF c.o.words # << >> /\ ~c.ndebug THEN Throw(c, "abort")
    ELSE LET c1 == open_out([c EXCEPT !.o.reserved_words = init_reserved_words,
                                       !.o.words_sect_size = init_words_sect_size])
             c2 == FilePut(c1, 0,
                     magic_bytes
                       \o write_uint32_LE(init_reserved_words)
                       \o write_uint32_LE(init_words_sect_size)
                       \o write_uint32_LE(0)
                       \o Zeros(init_reserved_words * 4 * 2))
         IN  open_in(c2)

create_file(c) ==
    IF c.o.words # << >> /\ ~c.ndebug THEN Throw(c, "abort")
    ELSE LET c1 == open_out([c EXCEPT !.o.reserved_words = init_reserved_words,
                                       !.o.words_sect_size = init_words_sect_size])
             c2 == FilePut(c1, 0,
                     magic_bytes
                       \o write_uint32_LE(init_reserved_words)
                       \o write_uint32_LE(init_words_sect_size)
                       \o write_uint32_LE(0)
                       \o Zeros(init_reserved_words * 4 * 2)
                       \o Zeros(init_words_sect_size))
         IN  open_in(c2)

\* the entries of an index table of n slots at pos that are not 0, each
\* decremented, as 4-byte values still
NonZeroEntries(b, pos, n) ==
    LET all == [i \in 1..n |-> read_uint32_LE(b, pos + (i - 1) * 4)]
        IsSet(e) == ~U32Zero(e)
    IN  SelectSeq(all, IsSet)

\* ind - 1 of a stored index that is not 0
IndexOf(e) == IF U32Small(e) THEN U32Val(e) - 1 ELSE Huge

\* the pairs sorted by word offset (first component)
RECURSIVE InsertPair(_, _)
InsertPair(sorted, p) ==
    IF sorted = << >> THEN << p >>
    ELSE IF p[1] < sorted[Len(sorted)][1]
         THEN InsertPair(SubSeq(sorted, 1, Len(sorted) - 1), p) \o << sorted[Len(sorted)] >>
         ELSE Append(sorted, p)

RECURSIVE SortPairs(_, _)
SortPairs(ps, n) == IF n = 0 THEN << >> ELSE InsertPair(SortPairs(ps, n - 1), ps[n])

\* the first index in lo..hi (1-based) of a null of b, 0 when there is none
RECURSIVE FirstNull(_, _, _)
FirstNull(b, lo, hi) ==
    IF lo > hi THEN 0
    ELSE IF lo = hi THEN (IF b[lo] = 0 THEN lo ELSE 0)
    ELSE LET mid == (lo + hi) \div 2
             l == FirstNull(b, lo, mid)
         IN  IF l # 0 THEN l ELSE FirstNull(b, mid + 1, hi)

\* the number of characters file.get reads for the key at pos: up to the
\* first null, at most limit; -1 when the file ends first
WordLenAt(b, pos, limit) ==
    LET avail == IF Len(b) - pos < limit THEN Len(b) - pos ELSE limit
        z == FirstNull(b, pos + 1, pos + avail)
    IN  IF z # 0 THEN z - pos - 1
        ELSE IF avail = limit THEN limit
        ELSE -1

\* the loop of read_file over the (word_off, def_off) pairs ps[i..]
RECURSIVE ReadWords(_, _, _, _)
ReadWords(c, ps, i, acc) ==
    LET word_off == ps[i][1]
        section_off == words_section_offset(c.o.reserved_words)
        \* words_sect_size - word_off in 32 bits: a negative difference
        \* wraps to a value past every file
        limit == IF c.o.words_sect_size >= word_off /\ word_off < Huge
                 THEN c.o.words_sect_size - word_off
                 ELSE IF c.o.words_sect_size = word_off THEN 0 ELSE Huge
        Got(n) ==
            IF n < 0 THEN ReadFailed([c EXCEPT !.o.words = acc])
            ELSE ReadWords(c, ps, i + 1,
                    Append(acc, word_info(GetAt(c.main.bytes, section_off + word_off, n),
                                          ps[i][2])))
    IN  IF i > Len(ps) THEN [c EXCEPT !.o.words = acc]
        ELSE Got(WordLenAt(c.main.bytes, section_off + word_off, limit))

\* the (word offset, def offset) pairs of the index tables, by word offset
SortedPairs(word_inds, def_inds) ==
    LET pairs == [i \in 1..Len(word_inds) |->
                     << IndexOf(word_inds[i]), IndexOf(def_inds[i]) >>]
    IN  SortPairs(pairs, Len(pairs))

\* read_file from the index tables on, without the search for repeated words
ReadIndex_keeping_repeated_words(c, word_inds, def_inds, nw) ==
    LET Read(c3) ==
            IF ~Good(c3) THEN c3 ELSE [c3 EXCEPT !.o.words = SortAll(c3.o.words)]
    IN  IF Len(word_inds) # nw \/ Len(def_inds) # nw
        THEN Throw(c, "Incorrect number of valid indices. File may be corrupted")
        ELSE IF \E i \in 1..(Len(word_inds) - 1) : \E j \in (i + 1)..Len(word_inds) :
                   word_inds[i] = word_inds[j]
        THEN Throw(c, "Found repeated indices. File may be corrupted")
        ELSE Read(ReadWords([c EXCEPT !.o.words = << >>],
                            SortedPairs(word_inds, def_inds), 1, << >>))

\* read_file from the index tables on (lines 650-698); nw is num_words
ReadIndex(c, word_inds, def_inds, nw) ==
    LET Sorted(c4) ==
            IF HasAdjacentDup(c4.o.words)
            THEN Throw(c4, "Found repeated words. File may be corrupted")
            ELSE c4
        Read(c3) ==
            IF ~Good(c3) THEN c3 ELSE Sorted([c3 EXCEPT !.o.words = SortAll(c3.o.words)])
    IN  IF Len(word_inds) # nw \/ Len(def_inds) # nw
        THEN Throw(c, "Incorrect number of valid indices. File may be corrupted")
        ELSE IF \E i \in 1..(Len(word_inds) - 1) : \E j \in (i + 1)..Len(word_inds) :
                   word_inds[i] = word_inds[j]
        THEN Throw(c, "Found repeated indices. File may be corrupted")
        ELSE Read(ReadWords([c EXCEPT !.o.words = << >>],
                            SortedPairs(word_inds, def_inds), 1, << >>))

\* read_file from num_words on; rw and wss are the header's reserved_words
\* and words_sect_size
ReadCounts(c, rw, nw) ==
    IF U32Less(rw, nw)
    THEN Throw(c, "Number of words is greater than total reserved words. File may be corrupted")
    ELSE IF ~U32Small(rw) \/ U32Val(rw) * 8 + U32Val(nw) > Len(c.main.bytes)
    THEN Throw(c, "Reported indices + words section sizes is greater than file size. File may be corrupted")
    ELSE IF ~CanGet(c.main.bytes, inds_section_offset, U32Val(rw) * 8) THEN ReadFailed(c)
    ELSE ReadIndex(c, NonZeroEntries(c.main.bytes, inds_section_offset, U32Val(rw)),
                   NonZeroEntries(c.main.bytes, inds_section_offset + U32Val(rw) * 4, U32Val(rw)),
                   U32Val(nw))

\* read_file that does not compare the magic bytes
read_file_any_magic(c) ==
    LET b == c.main.bytes
        SizeRead(c2, rw, wss) ==
            IF U32Zero(wss) THEN Throw(c2, "Read 0 word section size. File may be corrupted")
            ELSE IF ~CanGet(b, 15, 4) THEN ReadFailed(c2)
            ELSE ReadCounts(c2, rw, read_uint32_LE(b, 15))
        ReservedRead(c1, rw) ==
            IF U32Zero(rw) THEN Throw(c1, "Read 0 reserved words. File may be corrupted")
            ELSE IF ~CanGet(b, 11, 4) THEN ReadFailed(c1)
            ELSE SizeRead([c1 EXCEPT !.o.words_sect_size = U32Num(read_uint32_LE(b, 11))],
                          rw, read_uint32_LE(b, 11))
    IN  IF c.o.failbit THEN Throw(c, "Error reading from file")
        ELSE IF ~CanGet(b, 0, 7) THEN ReadFailed(c)
        ELSE IF ~CanGet(b, 7, 4) THEN ReadFailed(c)
        ELSE ReservedRead([c EXCEPT !.o.reserved_words = U32Num(read_uint32_LE(b, 7))],
                          read_uint32_LE(b, 7))

read_file(c) ==
    LET b == c.main.bytes
        SizeRead(c2, rw, wss) ==
            IF U32Zero(wss) THEN Throw(c2, "Read 0 word section size. File may be corrupted")
            ELSE IF ~CanGet(b, 15, 4) THEN ReadFailed(c2)
            ELSE ReadCounts(c2, rw, read_uint32_LE(b, 15))
        ReservedRead(c1, rw) ==
            IF U32Zero(rw) THEN Throw(c1, "Read 0 reserved words. File may be corrupted")
            ELSE IF ~CanGet(b, 11, 4) THEN ReadFailed(c1)
            ELSE SizeRead([c1 EXCEPT !.o.words_sect_size = U32Num(read_uint32_LE(b, 11))],
                          rw, read_uint32_LE(b, 11))
    IN  IF c.o.failbit THEN Throw(c, "Error reading from file")
        ELSE IF ~CanGet(b, 0, 7) THEN ReadFailed(c)
        ELSE IF GetAt(b, 0, 7) # magic_bytes
             THEN Throw(c, "Incorrect magic bytes. File may be corrupted")
        ELSE IF ~CanGet(b, 7, 4) THEN ReadFailed(c)
        ELSE ReservedRead([c EXCEPT !.o.reserved_words = U32Num(read_uint32_LE(b, 7))],
                          read_uint32_LE(b, 7))

\* the loop of open(filename, ...) with the hashes computed and not compared
RECURSIVE LoadDefs_not_comparing(_, _, _, _)
LoadDefs_not_comparing(c, i, deduplicate, check_defs) ==
    LET def_ind == c.o.words[i].def_ind
        Hashed(c1, hash, h) ==
            IF ~Good(h) THEN h
            ELSE LoadDefs_not_comparing(c1, i + 1, deduplicate, check_defs)
        Pushed(c1, hash) ==
            IF ~check_defs THEN LoadDefs_not_comparing(c1, i + 1, deduplicate, check_defs)
            ELSE Hashed(c1, hash, hash_existing_def(c1, def_ind))
        Got(r) ==
            IF ~Good(r) THEN r
            ELSE Pushed(IF deduplicate
                        THEN [c EXCEPT !.o.existing_defs =
                                 PushDef(c.o.existing_defs, r.ret.size, r.ret.hash, def_ind)]
                        ELSE c,
                        r.ret.hash)
    IN  IF i > Len(c.o.words) THEN c
        ELSE Got(get_def_size_and_hash(c, def_ind, << 0, 0, 0, 0 >>,
                    defs_section_offset(c.o.reserved_words, c.o.words_sect_size)))

\* the loop of open(filename, ...) over words[i..]: fill existing_defs and
\* verify the hashes
RECURSIVE LoadDefs(_, _, _, _)
LoadDefs(c, i, deduplicate, check_defs) ==
    LET def_ind == c.o.words[i].def_ind
        Hashed(c1, hash, h) ==
            IF ~Good(h) THEN h
            ELSE IF hash # h.ret
            THEN Throw(c1, "Definition hash does not match. File may be corrupted")
            ELSE LoadDefs(c1, i + 1, deduplicate, check_defs)
        Pushed(c1, hash) ==
            IF ~check_defs THEN LoadDefs(c1, i + 1, deduplicate, check_defs)
            ELSE Hashed(c1, hash, hash_existing_def(c1, def_ind))
        Got(r) ==
            IF ~Good(r) THEN r
            ELSE Pushed(IF deduplicate
                        THEN [c EXCEPT !.o.existing_defs =
                                 PushDef(c.o.existing_defs, r.ret.size, r.ret.hash, def_ind)]
                        ELSE c,
                        r.ret.hash)
    IN  IF i > Len(c.o.words) THEN c
        ELSE Got(get_def_size_and_hash(c, def_ind, << 0, 0, 0, 0 >>,
                    defs_section_offset(c.o.reserved_words, c.o.words_sect_size)))

\* open()
open0(c) ==
    LET Opened(c1) == IF ~Good(c1) THEN c1 ELSE read_file(c1)
    IN  IF c.o.file_open_type = "no_file"
        THEN Throw(c, "No associated file. Call open(string_view) first")
        ELSE Opened(open_in(c))

\* open(filename, ...) that creates the file whatever create_if_not_exists is
open_always_creating(c, create_if_not_exists, deduplicate, check_defs) ==
    LET c0 == [c EXCEPT !.o.file_open_type = "none", !.o.do_dedup = deduplicate]
        Created(c1) == IF Good(c1) THEN [c1 EXCEPT !.o.created_file = TRUE] ELSE c1
        Loaded(c2) == IF Good(c2) THEN [c2 EXCEPT !.o.created_file = FALSE] ELSE c2
        Opened(c1) ==
            IF ~Good(c1) THEN c1
            ELSE Loaded(IF deduplicate \/ check_defs
                        THEN LoadDefs(c1, 1, deduplicate, check_defs) ELSE c1)
    IN  IF ~(c0.main.exists /\ c0.main.regular)
        THEN IF c0.main.exists THEN Throw(c0, "exists but is not a regular file")
             ELSE Created(create_file(c0))
        ELSE Opened(open0(c0))

\* open(filename_, create_if_not_exists, deduplicate, check_defs)
open(c, create_if_not_exists, deduplicate, check_defs) ==
    LET c0 == [c EXCEPT !.o.file_open_type = "none", !.o.do_dedup = deduplicate]
        Created(c1) == IF Good(c1) THEN [c1 EXCEPT !.o.created_file = TRUE] ELSE c1
        Loaded(c2) == IF Good(c2) THEN [c2 EXCEPT !.o.created_file = FALSE] ELSE c2
        Opened(c1) ==
            IF ~Good(c1) THEN c1
            ELSE Loaded(IF deduplicate \/ check_defs
                        THEN LoadDefs(c1, 1, deduplicate, check_defs) ELSE c1)
    IN  IF ~(c0.main.exists /\ c0.main.regular)
        THEN IF c0.main.exists THEN Throw(c0, "exists but is not a regular file")
             ELSE IF ~create_if_not_exists THEN Throw(c0, "does not exist, not creating")
             ELSE Created(create_file(c0))
        ELSE Opened(open0(c0))

\* close() without the test for an associated file
close_unchecked(c) == [c EXCEPT !.o.file_open_type = "none"]

\* close()
close(c) ==
    IF c.o.file_open_type = "no_file"
    THEN Throw(c, "No associated file. Call open(string_view) first")
    ELSE [c EXCEPT !.o.file_open_type = "none"]

(***************************************************************************)
(* flush and rewrite_file                                                  *)
(***************************************************************************)
\* the word-index entries rewrite_file writes: bytes_written + 1 per word
RECURSIVE WordIndsFrom(_, _, _)
WordIndsFrom(ws, i, bytes_written) ==
    IF i > Len(ws) THEN << >>
    ELSE write_uint32_LE(bytes_written + 1)
           \o WordIndsFrom(ws, i + 1, bytes_written + Len(ws[i].word) + 1)

\* the keys of ws[i..], each followed by its null
RECURSIVE PackedWords(_, _)
PackedWords(ws, i) ==
    IF i > Len(ws) THEN << >> ELSE ws[i].word \o << 0 >> \o PackedWords(ws, i + 1)

\* def_ind + 1 of ws[i..]
RECURSIVE DefIndsFrom(_, _)
DefIndsFrom(ws, i) ==
    IF i > Len(ws) THEN << >>
    ELSE write_uint32_LE(ws[i].def_ind + 1) \o DefIndsFrom(ws, i + 1)

\* The loop of rewrite_file over the candidates cands[j..] of one word whose
\* record (size, old_hash) starts at cur_def_off in `file`: ret = NONE or the
\* def_ind found in file2.  read_def_batched returns a batch_size array of
\* which only read_amt bytes were read; `data != data2` compares the whole
\* arrays, so for a payload that does not fill its last batch the comparison
\* of two equal payloads also compares bytes that were never initialised.
\* skip is the number of candidates with an equal payload that this
\* comparison rejects.
RECURSIVE MatchCandidate(_, _, _, _, _, _, _, _)
MatchCandidate(c, cands, j, cur_def_off, size, old_hash, defs_sect_start, skip) ==
    IF j > Len(cands) THEN Ret(c, NONE)
    ELSE
    LET found_def_ind == cands[j]
        pos2 == defs_sect_start + found_def_ind
        t == c.tmp.bytes
    IN
    IF ~FileCanGet(c, cur_def_off, 4) THEN ReadFailed(c)
    ELSE IF ~CanGet(t, pos2, 4) THEN Throw(c, "Unexpected EOF")
    ELSE IF read_uint32_LE(t, pos2) # size \/ ~CanGet(t, pos2 + 4, 8)
              \/ read_uint64_LE(t, pos2 + 4) # old_hash
    THEN MatchCandidate(c, cands, j + 1, cur_def_off, size, old_hash, defs_sect_start, skip)
    ELSE IF U32Gt(size, Len(c.main.bytes)) \/ ~FileCanGet(c, cur_def_off + 12, U32Val(size))
    THEN ReadFailed(c)
    ELSE IF ~CanGet(t, pos2 + 12, U32Val(size)) THEN Throw(c, "Unexpected EOF")
    ELSE IF GetAt(c.main.bytes, cur_def_off + 12, U32Val(size)) # GetAt(t, pos2 + 12, U32Val(size))
    THEN MatchCandidate(c, cands, j + 1, cur_def_off, size, old_hash, defs_sect_start, skip)
    ELSE IF skip > 0 /\ U32Val(size) % batch_size # 0
    THEN MatchCandidate(c, cands, j + 1, cur_def_off, size, old_hash, defs_sect_start, skip - 1)
    ELSE Ret(c, found_def_ind)

SetDefInd(c, i, def_ind) == [c EXCEPT !.o.words[i].def_ind = def_ind]

\* one record copied from `file` to the end of file2 (lines 816-856)
CopyDef(c, i, cur_def_off, size, old_hash, has_old_hash, defs_sect_start) ==
    LET def_ind == Len(c.tmp.bytes) - defs_sect_start
        hash == IF ~c.o.do_dedup THEN fnv_init
                ELSE IF has_old_hash THEN old_hash
                ELSE read_uint64_LE(c.main.bytes, cur_def_off + 4)
        Copied(c3) ==
            IF ~c.o.do_dedup
            THEN \* file2.seekp(defs_sect_start + def_ind); write_uint64_LE(hash, file2)
                 [c3 EXCEPT !.tmp.bytes =
                     PutAt(c3.tmp.bytes, defs_sect_start + def_ind,
                           write_uint64_LE(HashBatches(c.main.bytes, 0, U32Val(size),
                                                       cur_def_off + 12, hash)))]
            ELSE [c3 EXCEPT !.o.existing_defs = PushDef(c3.o.existing_defs, size, hash, def_ind)]
        HeaderWritten(c2) ==
            IF ~Good(c2) THEN c2
            ELSE IF U32Gt(size, Len(c.main.bytes)) \/ ~FileCanGet(c, cur_def_off + 12, U32Val(size))
            THEN ReadFailed(c2)
            ELSE Copied([c2 EXCEPT !.tmp.bytes =
                            c2.tmp.bytes \o GetAt(c.main.bytes, cur_def_off + 12, U32Val(size))])
        IndSet(c1) ==
            HeaderWritten(IF def_ind < 0 /\ ~c.ndebug THEN Throw(c1, "abort")
                          ELSE [c1 EXCEPT !.tmp.bytes =
                                   c.tmp.bytes \o size \o write_uint64_LE(hash)])
    IN  IF c.o.do_dedup /\ ~has_old_hash /\ ~FileCanGet(c, cur_def_off + 4, 8) THEN ReadFailed(c)
        ELSE IndSet(SetDefInd(c, i, def_ind))

\* the loop of rewrite_file over words[i..] (lines 754-856); skips[i] is the
\* number of equal candidates the comparison of word i rejects
RECURSIVE RewriteDefs(_, _, _, _, _)
RewriteDefs(c, i, old_defs_sect_off, defs_sect_start, skips) ==
    LET def_ind == c.o.words[i].def_ind
        cur_def_off == old_defs_sect_off + def_ind
        Copied(d) ==
            IF ~Good(d) THEN d
            ELSE RewriteDefs(d, i + 1, old_defs_sect_off, defs_sect_start, skips)
        Matched(m, size, old_hash) ==
            IF ~Good(m) THEN m
            ELSE IF m.ret # NONE
            THEN RewriteDefs(SetDefInd(c, i, m.ret), i + 1,
                             old_defs_sect_off, defs_sect_start, skips)
            ELSE Copied(CopyDef(c, i, cur_def_off, size, old_hash, TRUE, defs_sect_start))
        Hashed(res, size) ==
            IF ~Good(res) THEN res
            ELSE Matched(MatchCandidate(c, DefsOf(c.o.existing_defs, size, res.ret.hash), 1,
                                        cur_def_off, size, res.ret.hash, defs_sect_start,
                                        skips[i]),
                         size, res.ret.hash)
        Sized(size) ==
            IF U32Zero(size) THEN Throw(c, "Read 0 definition size. File may be corrupted")
            ELSE IF c.o.do_dedup /\ HasSize(c.o.existing_defs, size)
            THEN Hashed(get_def_size_and_hash(c, def_ind, size, old_defs_sect_off), size)
            ELSE Copied(CopyDef(c, i, cur_def_off, size, Zeros(8), FALSE, defs_sect_start))
    IN  IF i > Len(c.o.words) THEN c
        ELSE IF ~FileCanGet(c, cur_def_off, 4) THEN ReadFailed(c)
        ELSE Sized(read_uint32_LE(c.main.bytes, cur_def_off))

rewrite_file(c, old_reserved_words, old_words_sect_size, skips) ==
    LET ws == c.o.words
        rw == c.o.reserved_words
        wss == c.o.words_sect_size
        \* file.close(); file2.close(); rename(new_file, filename)
        DefIndsWritten(c3) == open_in([c3 EXCEPT !.main = c3.tmp, !.tmp = NoFile])
        DefsWritten(c2) ==
            IF ~Good(c2) THEN c2
            ELSE DefIndsWritten([c2 EXCEPT !.tmp.bytes =
                    PutAt(c2.tmp.bytes, inds_section_offset + rw * 4,
                          DefIndsFrom(c2.o.words, 1) \o Zeros((rw - Len(ws)) * 4))])
        HeadWritten(head) ==
            DefsWritten(RewriteDefs([c EXCEPT !.tmp = MkFile(head),
                                              !.o.existing_defs = IF c.o.do_dedup THEN {} ELSE @],
                                    1, defs_section_offset(old_reserved_words, old_words_sect_size),
                                    Len(head), skips))
        Measured(total) ==
            IF ~(rw >= Len(ws) /\ wss >= total) /\ ~c.ndebug THEN Throw(c, "abort")
            ELSE HeadWritten(magic_bytes \o write_uint32_LE(rw) \o write_uint32_LE(wss)
                               \o write_uint32_LE(Len(ws))
                               \o WordIndsFrom(ws, 1, 0) \o Zeros((rw - Len(ws)) * 4)
                               \o Zeros(rw * 4)
                               \o PackedWords(ws, 1) \o Zeros(wss - total))
    IN  Measured(WordsLen(ws, 1, Len(ws)))

\* reserved doubled until twice its value is not below needed
RECURSIVE DoubleShort(_, _)
DoubleShort(reserved, needed) ==
    IF reserved * 2 >= needed \/ reserved = 0 THEN reserved
    ELSE DoubleShort(reserved * 2, needed)

\* reserved doubled until it is above twice what is needed
RECURSIVE DoubleBeyond(_, _)
DoubleBeyond(reserved, needed) ==
    IF reserved > needed * 2 \/ reserved = 0 THEN reserved ELSE DoubleBeyond(reserved * 2, needed)

\* reserved grown to exactly what is needed
GrowToFit(reserved, needed) == IF reserved >= needed THEN reserved ELSE needed

\* the smallest reserved * 2^k that is not below needed
RECURSIVE DoubleUntil(_, _)
DoubleUntil(reserved, needed) ==
    IF reserved >= needed \/ reserved = 0 THEN reserved ELSE DoubleUntil(reserved * 2, needed)

\* the offsets of all words, written where those of the new words belong
NewWordInds_whole_table(ws, i, off) == WordIndsFrom(ws, 1, 0)

\* the new words written by the fast path, and their offsets
RECURSIVE NewWordInds(_, _, _)
NewWordInds(ws, i, off) ==
    IF i > Len(ws) THEN << >>
    ELSE write_uint32_LE(off + 1) \o NewWordInds(ws, i + 1, off + Len(ws[i].word) + 1)

\* flush(): ret = whether the file was modified
flush(c, skips) ==
    LET Done(c5) == IF Good(c5) THEN Ret(c5, TRUE) ELSE c5
        \* the file is written anew with the sections grown
        Rewrite(c3, old_words_sect_size) ==
            IF ~Good(c3) THEN c3
            ELSE Done(rewrite_file([c3 EXCEPT !.o.reserved_words =
                                       DoubleUntil(c3.o.reserved_words, Len(c3.o.words))],
                                   c3.o.reserved_words, old_words_sect_size, skips))
        Sorted(c3) == IF ~Good(c3) THEN c3 ELSE Done(open_in(c3))
        \* the new words are written in place: num words, new words, word
        \* inds, def inds
        InPlace(c2, ws, fnw, cur_words_total_len) ==
            Sorted(sort_words(
              FilePut(
                FilePut(
                  FilePut(
                    FilePut(c2, inds_section_offset - 4, write_uint32_LE(Len(ws))),
                    words_section_offset(c2.o.reserved_words) + cur_words_total_len,
                    PackedWords(ws, fnw + 1)),
                  inds_section_offset + fnw * 4,
                  NewWordInds(ws, fnw + 1, cur_words_total_len)),
                inds_section_offset + (c2.o.reserved_words + fnw) * 4,
                DefIndsFrom(ws, fnw + 1))))
        Grown(c2, old_words_sect_size, cur_words_total_len) ==
            IF c2.o.words_sect_size # old_words_sect_size
                 \/ c2.o.reserved_words < Len(c2.o.words)
            THEN Rewrite(sort_words(c2), old_words_sect_size)
            ELSE InPlace(c2, c2.o.words, c2.o.first_new_word, cur_words_total_len)
        Measured(c1, cur_words_total_len, words_total_len) ==
            Grown([c1 EXCEPT !.o.words_sect_size = DoubleUntil(@, words_total_len)],
                  c1.o.words_sect_size, cur_words_total_len)
        Opened(c1) ==
            IF ~Good(c1) THEN c1
            ELSE Measured(c1, WordsLen(c1.o.words, 1, c1.o.first_new_word),
                          WordsLen(c1.o.words, 1, c1.o.first_new_word)
                            + WordsLen(c1.o.words, c1.o.first_new_word + 1, Len(c1.o.words)))
    IN  IF c.o.file_open_type = "no_file"
        THEN Throw(c, "No associated file. Call open(string_view) first")
        ELSE IF c.o.first_new_word = NONE THEN Ret(open_in(c), FALSE)
        ELSE Opened(open_in_out(c))

(***************************************************************************)
(* flush() on the path that rewrites the file, statement by statement      *)
(***************************************************************************)
\* flush() up to its call of rewrite_file (lines 195-219): the context c
\* there, the sizes before the growth, and whether this path is taken
flush_until_rewrite(c) ==
    LET c1 == open_in_out(c)
        cur_words_total_len == WordsLen(c1.o.words, 1, c1.o.first_new_word)
        words_total_len ==
            cur_words_total_len
              + WordsLen(c1.o.words, c1.o.first_new_word + 1, Len(c1.o.words))
        c2 == [c1 EXCEPT !.o.words_sect_size = DoubleUntil(@, words_total_len)]
        c3 == sort_words(c2)
    IN  IF c.o.file_open_type = "no_file" \/ c.o.first_new_word = NONE \/ ~Good(c1)
        THEN [c |-> c, old_reserved_words |-> c.o.reserved_words,
              old_words_sect_size |-> c.o.words_sect_size, rewrites |-> FALSE]
        ELSE [c |-> [c3 EXCEPT !.o.reserved_words = DoubleUntil(@, Len(c3.o.words))],
              old_reserved_words |-> c1.o.reserved_words,
              old_words_sect_size |-> c1.o.words_sect_size,
              rewrites |-> /\ (c2.o.words_sect_size # c1.o.words_sect_size
                                 \/ c2.o.reserved_words < Len(c2.o.words))
                           /\ Good(c3)]

\* file2 written in `file`, the stream of the original path, and not in the
\* sibling
rewrite_begin_in_place(c) ==
    LET ws == c.o.words
        rw == c.o.reserved_words
        wss == c.o.words_sect_size
        total == WordsLen(ws, 1, Len(ws))
    IN  IF ~(rw >= Len(ws) /\ wss >= total) /\ ~c.ndebug THEN Throw(c, "abort")
        ELSE [c EXCEPT !.main = MkFile(magic_bytes \o write_uint32_LE(rw)
                                        \o write_uint32_LE(wss)
                                        \o write_uint32_LE(Len(ws))
                                        \o WordIndsFrom(ws, 1, 0) \o Zeros((rw - Len(ws)) * 4)
                                        \o Zeros(rw * 4)
                                        \o PackedWords(ws, 1) \o Zeros(wss - total)),
                       !.tmp = MkFile(<< >>),
                       !.o.existing_defs = IF c.o.do_dedup THEN {} ELSE @]

\* rewrite_file up to its loop over the words (lines 707-752): file2 is
\* created and holds the magic, the header, the word index, the zeroed def
\* index and the words section
rewrite_begin(c) ==
    LET ws == c.o.words
        rw == c.o.reserved_words
        wss == c.o.words_sect_size
        total == WordsLen(ws, 1, Len(ws))
    IN  IF ~(rw >= Len(ws) /\ wss >= total) /\ ~c.ndebug THEN Throw(c, "abort")
        ELSE [c EXCEPT !.tmp = MkFile(magic_bytes \o write_uint32_LE(rw)
                                        \o write_uint32_LE(wss)
                                        \o write_uint32_LE(Len(ws))
                                        \o WordIndsFrom(ws, 1, 0) \o Zeros((rw - Len(ws)) * 4)
                                        \o Zeros(rw * 4)
                                        \o PackedWords(ws, 1) \o Zeros(wss - total)),
                       !.o.existing_defs = IF c.o.do_dedup THEN {} ELSE @]

\* one pass of the loop of rewrite_file, for words[i] (lines 754-856)
rewrite_def(c, i, old_reserved_words, old_words_sect_size, skips) ==
    LET r == RewriteDefs([c EXCEPT !.o.words = SubSeq(@, 1, i)], i,
                         defs_section_offset(old_reserved_words, old_words_sect_size),
                         defs_section_offset(c.o.reserved_words, c.o.words_sect_size),
                         skips)
    IN  [r EXCEPT !.o.words = @ \o SubSeq(c.o.words, i + 1, Len(c.o.words))]

\* rewrite_file after its loop: the def index is written to file2 (lines
\* 859-863)
rewrite_def_inds(c) ==
    [c EXCEPT !.tmp.bytes =
        PutAt(c.tmp.bytes, inds_section_offset + c.o.reserved_words * 4,
              DefIndsFrom(c.o.words, 1)
                \o Zeros((c.o.reserved_words - Len(c.o.words)) * 4))]

\* file.close(); file2.close(); rename(new_file, filename); open_in()
\* (lines 865-869)
rewrite_rename(c) == open_in([c EXCEPT !.main = c.tmp, !.tmp = NoFile])

\* the passes from..to of the loop of rewrite_file (lines 754-856)
rewrite_defs(c, from, to, old_reserved_words, old_words_sect_size, skips) ==
    LET r == RewriteDefs([c EXCEPT !.o.words = SubSeq(@, 1, to)], from,
                         defs_section_offset(old_reserved_words, old_words_sect_size),
                         defs_section_offset(c.o.reserved_words, c.o.words_sect_size),
                         skips)
    IN  [r EXCEPT !.o.words = @ \o SubSeq(c.o.words, to + 1, Len(c.o.words))]

\* the loop of rewrite_file from words[from] on, len passes at a time
RECURSIVE rewrite_all_defs(_, _, _, _, _, _)
rewrite_all_defs(c, from, len, old_reserved_words, old_words_sect_size, skips) ==
    IF ~Good(c) \/ from > Len(c.o.words) THEN c
    ELSE rewrite_all_defs(
             rewrite_defs(c, from,
                          IF from + len - 1 < Len(c.o.words) THEN from + len - 1
                          ELSE Len(c.o.words),
                          old_reserved_words, old_words_sect_size, skips),
             from + len, len, old_reserved_words, old_words_sect_size, skips)

\* flush() with rewrite_file followed statement by statement, its loop len
\* passes at a time
flush_in_passes(c, len, skips) ==
    LET f == flush_until_rewrite(c)
        Renamed(c3) == IF Good(c3) THEN Ret(c3, TRUE) ELSE c3
        Copied(c2) == IF Good(c2) THEN Renamed(rewrite_rename(rewrite_def_inds(c2))) ELSE c2
        Begun(c1) == Copied(rewrite_all_defs(c1, 1, len, f.old_reserved_words,
                                             f.old_words_sect_size, skips))
    IN  IF f.rewrites THEN Begun(rewrite_begin(f.c)) ELSE flush(c, skips)

(***************************************************************************)
(* add_word and the destructor                                             *)
(***************************************************************************)
\* the not-deduplicated branch of add_word storing the offset in the file,
\* not the offset in the defs section
AppendDef_with_file_offset(c, word, def) ==
    LET Sought(c1, end_pos, defs_off, hash) ==
            IF end_pos < defs_off /\ ~c1.ndebug THEN Throw(c1, "abort")
            ELSE IF end_pos - defs_off < 0 THEN Throw(c1, "Incorrect file size (too small)")
            ELSE FilePut([c1 EXCEPT !.o.words = Append(@, word_info(word, end_pos)),
                                    !.o.existing_defs =
                                       IF c1.o.do_dedup
                                       THEN PushDef(@, write_uint32_LE(Len(def)), hash, end_pos)
                                       ELSE @],
                         end_pos, write_uint32_LE(Len(def)) \o write_uint64_LE(hash) \o def)
        Opened(c1) ==
            IF ~Good(c1) THEN c1
            ELSE Sought(c1, IF c1.o.failbit THEN -1 ELSE Len(c1.main.bytes),
                        defs_section_offset(c1.o.reserved_words, c1.o.words_sect_size),
                        fnv1a(def))
    IN  Opened(open_in_out(c))

\* the not-deduplicated branch of add_word (lines 293-315)
AppendDef(c, word, def) ==
    LET Sought(c1, end_pos, defs_off, hash) ==
            IF end_pos < defs_off /\ ~c1.ndebug THEN Throw(c1, "abort")
            ELSE IF end_pos - defs_off < 0 THEN Throw(c1, "Incorrect file size (too small)")
            ELSE FilePut([c1 EXCEPT !.o.words = Append(@, word_info(word, end_pos - defs_off)),
                                    !.o.existing_defs =
                                       IF c1.o.do_dedup
                                       THEN PushDef(@, write_uint32_LE(Len(def)), hash,
                                                    end_pos - defs_off)
                                       ELSE @],
                         end_pos, write_uint32_LE(Len(def)) \o write_uint64_LE(hash) \o def)
        \* file.seekg(0, end); file.tellg(): -1 on a failed stream
        Opened(c1) ==
            IF ~Good(c1) THEN c1
            ELSE Sought(c1, IF c1.o.failbit THEN -1 ELSE Len(c1.main.bytes),
                        defs_section_offset(c1.o.reserved_words, c1.o.words_sect_size),
                        fnv1a(def))
    IN  Opened(open_in_out(c))

\* add_word<flush_words, skip_dup_check>(word, def): ret = inserted
add_word(c, word, def, flush_words, skip_dup_check, skips) ==
    LET c1 == IF c.o.first_new_word = NONE
              THEN [c EXCEPT !.o.first_new_word = Len(c.o.words)] ELSE c
        Flushed(c3) == IF Good(c3) THEN Ret(c3, TRUE) ELSE c3
        Added(c2) ==
            IF ~Good(c2) THEN c2
            ELSE IF flush_words THEN Flushed(flush(c2, skips))
            ELSE Ret(c2, TRUE)
        Existing(e) ==
            IF ~Good(e) THEN e
            ELSE Added(IF e.ret # NONE
                       THEN [c1 EXCEPT !.o.words = Append(@, word_info(word, e.ret))]
                       ELSE AppendDef(c1, word, def))
    IN  IF c.o.file_open_type = "no_file"
        THEN Throw(c, "No associated file. Call open(string_view) first")
        ELSE IF ~skip_dup_check /\ find_def_ind(c.o, word) # NONE THEN Ret(c, FALSE)
        ELSE Existing(IF c1.o.do_dedup THEN get_existing_def_ind(c1, def) ELSE Ret(c1, NONE))

\* ~dictionary_file(): flush what is pending and swallow what it throws
destructor(c, skips) ==
    LET Caught(c1) == IF c1.st = "abort" THEN c1 ELSE [c1 EXCEPT !.st = "ok"]
    IN  IF c.o.first_new_word # NONE THEN Caught(flush(c, skips)) ELSE c

(***************************************************************************)
(* The engine as a state machine: two dictionary_file objects, one opened  *)
(* with deduplicate = TRUE and one with deduplicate = FALSE, each on its   *)
(* own path, are given the same calls.                                     *)
(***************************************************************************)
Engine == BOOLEAN

VARIABLES
    disk,      \* disk[d] = [main, tmp]: the files at filename and filename.tmp
    dict,      \* dict[d]: the fields of the dictionary_file object
    live,      \* live[d]: "open" (the object exists), "failed" (its constructor
               \*          threw) or "aborted" (an assert ended the process)
    ndebug,    \* the build defines NDEBUG
    last,      \* last[d]: the last call and what it returned or threw
    ins,       \* ins[d]: the (word, def) pairs for which add_word returned true
    within,    \* within[d]: every call so far was within the interface's
               \*            contract and returned without throwing
    rewriting  \* how far a flush that is followed statement by statement has
               \* come in rewrite_file

engine_vars == << disk, dict, live, ndebug, last, ins, within, rewriting >>

\* the state of the batch build pipeline
VARIABLES
    words_txt,        \* the lines of words.txt
    fr,               \* file_read_worker: pc, lines read, word, next
    hw,               \* hw[w]: http_worker w: pc, ind, word, body, next
    mainpc,           \* where the main thread is
    word_buf, word_buf_start, word_buf_end,
    def_buf, def_buf_start, def_buf_end,
    word_lock,        \* 0 or the worker that holds the mutex
    word_finished, def_finished,
    dict_file,        \* main's dictionary_file on data.sdict: [o, main, tmp]
    added,            \* the (word, def) of every add_word call main made
    num_flushes,      \* the number of dict_file.flush() calls main made
    ended             \* "" or how the process ended early: "exit" (exit(-1)
                      \* after a failed request), "terminate" (an exception
                      \* left main)

pipe_vars == << words_txt, fr, hw, mainpc, word_buf, word_buf_start, word_buf_end,
                def_buf, def_buf_start, def_buf_end, word_lock, word_finished,
                def_finished, dict_file, added, num_flushes, ended >>

CtxOf(d) == Ctx(dict[d], disk[d].main, disk[d].tmp, ndebug)

\* last[d]: op and word of the call, st and ret what it threw or returned;
\* present: the word was stored before the call; empty: the definition passed
\* was empty; wrote: the call changed the bytes of the file; grew: the call
\* changed num_words(); pending: words were unflushed when the call was made;
\* kept: the call left the word list as it was;
\* for open(filename, ...), path: what the path held, args: create_if_not_exists
\* and check_defs
NoCall ==
    [op |-> "open", word |-> << >>, st |-> "ok", ret |-> FALSE,
     present |-> FALSE, empty |-> FALSE, wrote |-> FALSE, grew |-> FALSE, pending |-> FALSE,
     kept |-> FALSE, path |-> "absent", args |-> << TRUE, TRUE >>]

\* the number of equal candidates the compare of rewrite_file rejects for the
\* i-th word: at most the i - 1 records written before it
SkipChoices == { s \in [1..MaxWords -> 0..(MaxWords - 1)] : \A i \in 1..MaxWords : s[i] < i }
NoSkips == [i \in 1..MaxWords |-> 0]

\* no flush is being followed: pc is where rewrite_file is, i the word its
\* loop is at, start[d] the context flush() was called in, skips the outcomes
\* of its comparisons
NoRewrite ==
    [pc |-> "none", i |-> 0, skips |-> NoSkips,
     start |-> [d \in Engine |-> Ctx(NewObject(d), NoFile, NoFile, TRUE)]]

\* the deduplicating object would rewrite the file when flushing with one
\* more key of addlen bytes
MayRewrite(addlen, addcount) ==
    LET o == dict[TRUE] IN
    live[TRUE] = "open"
    /\ (WordsLen(o.words, 1, Len(o.words)) + addlen > o.words_sect_size
        \/ Len(o.words) + addcount > o.reserved_words)

\* the number of words of the deduplicating object whose payload is def
SamePayload(def) ==
    Cardinality({ i \in 1..Len(dict[TRUE].words) :
                    read_def_whole(CtxOf(TRUE), dict[TRUE].words[i].def_ind, FALSE).ret = def })

\* the outcomes of the comparisons of a call that flushes (flushing = TRUE)
\* after adding adddef (<< >>: nothing is added): a word has at most one
\* candidate per other word with the same payload
Oracle(flushing, addlen, addcount, adddef) ==
    IF flushing /\ MayRewrite(addlen, addcount)
    THEN { s \in SkipChoices :
             \A i \in 1..MaxWords : \E def \in Defs \ { << >> } :
                s[i] < SamePayload(def) + (IF def = adddef THEN 1 ELSE 0) }
    ELSE { NoSkips }

\* Every engine whose object exists makes the call; R[d] is the context the
\* call ends in, call the record of the call
Step(R, call) ==
    /\ disk' = [d \in Engine |-> [main |-> R[d].main, tmp |-> R[d].tmp]]
    /\ dict' = [d \in Engine |-> R[d].o]
    /\ live' = [d \in Engine |->
                  IF live[d] = "open" /\ R[d].st = "abort" THEN "aborted" ELSE live[d]]
    /\ last' = [d \in Engine |->
                  IF live[d] = "open"
                  THEN [call EXCEPT !.st = R[d].st, !.ret = R[d].ret,
                                    !.present = call.op = "add_word" /\ contains(dict[d], call.word),
                                    !.wrote = R[d].main # disk[d].main,
                                    !.grew = num_words(R[d].o) # num_words(dict[d]),
                                    !.pending = call.op = "flush"
                                                  /\ dict[d].first_new_word # NONE,
                                    !.kept = call.op = "flush"
                                               /\ R[d].o.words = dict[d].words]
                  ELSE last[d]]

\* the call respects what the interface asks of its caller: a definition is
\* not empty, and skip_dup_check is used for a word that is not stored
InContract(d, word, def, skip_dup_check) ==
    def # << >> /\ (skip_dup_check => ~contains(dict[d], word))

EngineInit ==
    /\ ndebug \in BOOLEAN
    /\ \E R \in { [d \in Engine |-> open(Ctx(NewObject(d), NoFile, NoFile, ndebug), TRUE, d, TRUE)] } :
       /\ disk = [d \in Engine |-> [main |-> R[d].main, tmp |-> R[d].tmp]]
       /\ dict = [d \in Engine |-> R[d].o]
    /\ live = [d \in Engine |-> "open"]
    /\ last = [d \in Engine |-> NoCall]
    /\ ins = [d \in Engine |-> {}]
    /\ within = [d \in Engine |-> TRUE]
    /\ rewriting = NoRewrite

\* add_word<flush_words, skip_dup_check>(word, def) on every open engine
AddWordCall(word, def, flush_words, skip_dup_check) ==
    /\ \E d \in Engine : live[d] = "open"
    /\ \A d \in Engine : Len(dict[d].words) < MaxWords
    /\ \E skips \in Oracle(flush_words, Len(word) + 1, 1, def) :
         \E R \in { [d \in Engine |->
                       IF live[d] = "open"
                       THEN add_word(CtxOf(d), word, def, flush_words, skip_dup_check, skips)
                       ELSE CtxOf(d)] } :
         /\ Step(R, [NoCall EXCEPT !.op = "add_word", !.word = word, !.empty = def = << >>])
         /\ ins' = [d \in Engine |->
                      IF live[d] = "open" /\ Good(R[d]) /\ R[d].ret = TRUE
                      THEN ins[d] \cup { << word, def >> } ELSE ins[d]]
         /\ within' = [d \in Engine |->
                         IF live[d] = "open"
                         THEN within[d] /\ InContract(d, word, def, skip_dup_check) /\ Good(R[d])
                         ELSE within[d]]
    /\ UNCHANGED ndebug
    /\ UNCHANGED << rewriting, pipe_vars >>

\* a call the interface allows
AddWord(word, def, flush_words, skip_dup_check) ==
    /\ \A d \in Engine : live[d] = "open" => InContract(d, word, def, skip_dup_check)
    /\ AddWordCall(word, def, flush_words, skip_dup_check)

Flush ==
    /\ \E d \in Engine : live[d] = "open"
    /\ \E skips \in Oracle(dict[TRUE].first_new_word # NONE, 0, 0, << >>) :
         \E R \in { [d \in Engine |->
                       IF live[d] = "open" THEN flush(CtxOf(d), skips) ELSE CtxOf(d)] } :
         /\ Step(R, [NoCall EXCEPT !.op = "flush"])
         /\ within' = [d \in Engine |->
                         IF live[d] = "open" THEN within[d] /\ Good(R[d]) ELSE within[d]]
    /\ UNCHANGED << ndebug, ins >>
    /\ UNCHANGED << rewriting, pipe_vars >>

\* find(word, check_def): what it returns is FindNow; the step keeps the
\* state the stream is left in
Find(word, check_def) ==
    /\ \E d \in Engine : live[d] = "open"
    /\ \E R \in { [d \in Engine |->
                     IF live[d] = "open" THEN find(CtxOf(d), word, check_def) ELSE CtxOf(d)] } :
       /\ disk' = [d \in Engine |-> [main |-> R[d].main, tmp |-> R[d].tmp]]
       /\ dict' = [d \in Engine |-> R[d].o]
    /\ UNCHANGED << live, last, ndebug, ins, within >>
    /\ UNCHANGED << rewriting, pipe_vars >>

\* the object is destroyed and a new one is constructed on the same path
Reopen(check_defs) ==
    /\ \E d \in Engine : live[d] # "aborted"
    /\ \E skips \in Oracle(dict[TRUE].first_new_word # NONE, 0, 0, << >>) :
         \E D \in { [d \in Engine |->
                       IF live[d] = "open" THEN destructor(CtxOf(d), skips) ELSE CtxOf(d)] } :
         \E R \in { [d \in Engine |->
                       IF live[d] = "aborted" \/ D[d].st = "abort" THEN D[d]
                       ELSE open(Ctx(NewObject(d), D[d].main, D[d].tmp, ndebug),
                                 TRUE, d, check_defs)] } :
         /\ disk' = [d \in Engine |-> [main |-> R[d].main, tmp |-> R[d].tmp]]
         /\ dict' = [d \in Engine |-> R[d].o]
         /\ live' = [d \in Engine |->
                       IF live[d] = "aborted" \/ R[d].st = "abort" THEN "aborted"
                       ELSE IF Good(R[d]) THEN "open" ELSE "failed"]
         /\ last' = [d \in Engine |->
                       IF live[d] # "aborted"
                       THEN [NoCall EXCEPT !.op = "reopen", !.st = R[d].st,
                                           !.pending = live[d] = "open"
                                                       /\ dict[d].first_new_word # NONE]
                       ELSE last[d]]
    /\ UNCHANGED << ndebug, ins, within >>
    /\ UNCHANGED << rewriting, pipe_vars >>

EngineNext ==
    \/ \E word \in Keys, def \in Defs, flush_words \in BOOLEAN :
          AddWord(word, def, flush_words, FALSE)
    \/ Flush
    \/ \E word \in Keys, check_def \in BOOLEAN : Find(word, check_def)
    \/ \E check_defs \in BOOLEAN : Reopen(check_defs)

\* what find(word) returns in the current state: the payload, or << >> with
\* found = FALSE, or ok = FALSE when it throws
FindNow(d, word) ==
    LET Result(r) ==
            [ok |-> Good(r),
             found |-> Good(r) /\ r.ret.found,
             def |-> IF Good(r) THEN r.ret.def ELSE << >>]
    IN  Result(find(CtxOf(d), word, FALSE))

(***************************************************************************)
(* Opening what a path holds: objects constructed without a file, calls on *)
(* them, open(filename, ...) on a missing path, on a directory and on a    *)
(* file, intact or damaged while no object has it open                     *)
(***************************************************************************)
PathKind(f) == IF ~f.exists THEN "absent" ELSE IF f.regular THEN "file" ELSE "other"

\* the positions of the bytes that are damaged: in the magic, in each header
\* field, in the first entries of both index tables, in the first keys, in
\* the first definition record (size, hash, payload)
DamagePositions(b) ==
    LET wo == words_section_offset(init_reserved_words)
        do == defs_section_offset(init_reserved_words, init_words_sect_size)
    IN  { pos \in { 0, 5, 7, 12, 15,
                    inds_section_offset, inds_section_offset + 4, inds_section_offset + 8,
                    inds_section_offset + 4 * init_reserved_words,
                    inds_section_offset + 4 * init_reserved_words + 4,
                    wo, wo + 1, wo + 2, do, do + 4, do + 12 } : pos < Len(b) }
DamageValues == { 0, 1, 3, 33, 97 }

\* the lengths a file is cut to
CutLengths(b) ==
    LET wo == words_section_offset(init_reserved_words)
        do == defs_section_offset(init_reserved_words, init_words_sect_size)
    IN  { n \in { 0, 3, 7, 18, 19, inds_section_offset + 4 * init_reserved_words,
                  wo - 1, wo, wo + 1, do - 1, do, Len(b) - 1 } : n < Len(b) }

\* the words and definitions of the files that are opened
OpenKeys == { << 97 >>, << 98 >> }
OpenDefs == { << 120 >>, << 121 >> }

NoObject == \A d \in Engine : live[d] = "none"

\* objects constructed by dictionary_file(), and what the path holds
OpenInit ==
    /\ ndebug \in BOOLEAN
    /\ \E f \in { NoFile, NotAFile } :
          disk = [d \in Engine |-> [main |-> f, tmp |-> NoFile]]
    /\ dict = [d \in Engine |-> NewObject(TRUE)]
    /\ live = [d \in Engine |-> "none"]
    /\ last = [d \in Engine |-> [NoCall EXCEPT !.op = "construct"]]
    /\ ins = [d \in Engine |-> {}]
    /\ within = [d \in Engine |-> TRUE]
    /\ rewriting = NoRewrite

\* a call made on the objects; R[d] is the context it ends in
OpenStep(R, call) ==
    /\ disk' = [d \in Engine |-> [main |-> R[d].main, tmp |-> R[d].tmp]]
    /\ dict' = [d \in Engine |-> R[d].o]
    /\ last' = [d \in Engine |->
                  [call EXCEPT !.st = R[d].st,
                               !.path = PathKind(disk[d].main),
                               !.wrote = R[d].main # disk[d].main,
                               !.grew = num_words(R[d].o) # num_words(dict[d])]]
    /\ UNCHANGED << ndebug, ins, within >>
    /\ UNCHANGED << rewriting, pipe_vars >>

\* open(filename, create_if_not_exists, deduplicate, check_defs), one object
\* with deduplicate, one without
OpenFile(create_if_not_exists, check_defs) ==
    /\ NoObject
    /\ \E R \in { [d \in Engine |-> open(CtxOf(d), create_if_not_exists, d, check_defs)] } :
          /\ OpenStep(R, [NoCall EXCEPT !.op = "open",
                                        !.args = << create_if_not_exists, check_defs >>])
          /\ live' = [d \in Engine |-> IF Good(R[d]) THEN "open" ELSE "failed"]

\* add_word, flush, close or open() on the objects that have no file
CallUnopened(op) ==
    /\ NoObject
    /\ \E R \in { [d \in Engine |->
                    CASE op = "add_word" ->
                           add_word(CtxOf(d), << 97 >>, << 120 >>, TRUE, FALSE, NoSkips)
                      [] op = "flush" -> flush(CtxOf(d), NoSkips)
                      [] op = "close" -> close(CtxOf(d))
                      [] OTHER -> open0(CtxOf(d))] } :
          OpenStep(R, [NoCall EXCEPT !.op = op])
    /\ UNCHANGED live

\* the objects are destroyed and new ones constructed by dictionary_file()
Discard ==
    /\ ~NoObject
    /\ \E R \in { [d \in Engine |->
                    IF live[d] = "open" THEN destructor(CtxOf(d), NoSkips) ELSE CtxOf(d)] } :
          /\ disk' = [d \in Engine |-> [main |-> R[d].main, tmp |-> R[d].tmp]]
    /\ dict' = [d \in Engine |-> NewObject(TRUE)]
    /\ live' = [d \in Engine |-> "none"]
    /\ last' = [d \in Engine |-> [NoCall EXCEPT !.op = "construct"]]
    /\ UNCHANGED << ndebug, ins, within >>
    /\ UNCHANGED << rewriting, pipe_vars >>

\* the file is as the objects wrote it
Undamaged == \A d \in Engine : within[d]

\* one byte of the file is changed
Damage(pos, val) ==
    /\ NoObject /\ Undamaged
    /\ \A d \in Engine : disk[d].main.regular
    /\ \A d \in Engine : pos \in DamagePositions(disk[d].main.bytes)
    /\ disk' = [d \in Engine |->
                  [disk[d] EXCEPT !.main.bytes = PutAt(@, pos, << val >>)]]
    /\ last' = [d \in Engine |-> [NoCall EXCEPT !.op = "construct"]]
    /\ within' = [d \in Engine |-> FALSE]
    /\ UNCHANGED << dict, live, ndebug, ins >>
    /\ UNCHANGED << rewriting, pipe_vars >>

\* the file is cut to n bytes
Cut(n) ==
    /\ NoObject /\ Undamaged
    /\ \A d \in Engine : disk[d].main.regular
    /\ \A d \in Engine : n \in CutLengths(disk[d].main.bytes)
    /\ disk' = [d \in Engine |->
                  [disk[d] EXCEPT !.main.bytes = SubSeq(@, 1, n)]]
    /\ last' = [d \in Engine |-> [NoCall EXCEPT !.op = "construct"]]
    /\ within' = [d \in Engine |-> FALSE]
    /\ UNCHANGED << dict, live, ndebug, ins >>
    /\ UNCHANGED << rewriting, pipe_vars >>

OpenNext ==
    \/ \E create_if_not_exists \in BOOLEAN, check_defs \in BOOLEAN :
          OpenFile(create_if_not_exists, check_defs)
    \/ \E op \in { "add_word", "flush", "close", "open0" } : CallUnopened(op)
    \/ \E word \in OpenKeys, def \in OpenDefs : Undamaged /\ AddWord(word, def, TRUE, FALSE)
    \/ Discard
    \/ \E pos \in 0..600, val \in DamageValues : Damage(pos, val)
    \/ \E n \in 0..600 : Cut(n)

(***************************************************************************)
(* A flush that rewrites the file, followed statement by statement: words  *)
(* are added, then flush() runs up to rewrite_file, which creates file2,   *)
(* copies one record per step, writes the def index and renames; an error  *)
(* of the file system may end it at any step                               *)
(***************************************************************************)
\* the sizes of the sections when the flush that is followed was called
OldSizes(d) ==
    [reserved_words |-> rewriting.start[d].o.reserved_words,
     words_sect_size |-> rewriting.start[d].o.words_sect_size]

\* the objects go from contexts R to the next statement, or the call ends
\* in the exception one of them throws
RewriteStep(R, pc, i) ==
    /\ disk' = [d \in Engine |-> [main |-> R[d].main, tmp |-> R[d].tmp]]
    /\ dict' = [d \in Engine |-> R[d].o]
    /\ live' = [d \in Engine |-> IF Good(R[d]) THEN live[d]
                                 ELSE IF R[d].st = "abort" THEN "aborted" ELSE "failed"]
    /\ rewriting' = [rewriting EXCEPT !.pc = IF \A d \in Engine : Good(R[d]) THEN pc
                                             ELSE "failed",
                                      !.i = i]
    /\ UNCHANGED << ndebug, last, ins, within >>
    /\ UNCHANGED pipe_vars

\* add_word on the objects while no flush is followed
RewriteAdd(word, def, flush_words) ==
    /\ rewriting.pc = "none"
    /\ \A d \in Engine : live[d] = "open"
    /\ AddWord(word, def, flush_words, FALSE)

\* flush() is called and comes to rewrite_file, which creates file2
RewriteBegin ==
    /\ rewriting.pc = "none"
    /\ \A d \in Engine : live[d] = "open" /\ flush_until_rewrite(CtxOf(d)).rewrites
    /\ \E skips \in Oracle(TRUE, 0, 0, << >>) :
          /\ disk' = [d \in Engine |->
                        LET r == rewrite_begin(flush_until_rewrite(CtxOf(d)).c)
                        IN  [main |-> r.main, tmp |-> r.tmp]]
          /\ dict' = [d \in Engine |-> rewrite_begin(flush_until_rewrite(CtxOf(d)).c).o]
          /\ rewriting' = [pc |-> IF \A d \in Engine :
                                       Good(rewrite_begin(flush_until_rewrite(CtxOf(d)).c))
                                  THEN "copy" ELSE "failed",
                           i |-> 1, skips |-> skips,
                           start |-> [d \in Engine |-> CtxOf(d)]]
    /\ live' = [d \in Engine |->
                  IF Good(rewrite_begin(flush_until_rewrite(CtxOf(d)).c)) THEN live[d]
                  ELSE "aborted"]
    /\ UNCHANGED << ndebug, last, ins, within >>
    /\ UNCHANGED pipe_vars

\* the record of words[i] is looked for in file2 or copied to it
RewriteCopy ==
    /\ rewriting.pc = "copy"
    /\ rewriting.i <= Len(dict[TRUE].words)
    /\ RewriteStep([d \in Engine |->
                      rewrite_def(CtxOf(d), rewriting.i, OldSizes(d).reserved_words,
                                  OldSizes(d).words_sect_size, rewriting.skips)],
                   "copy", rewriting.i + 1)

\* the def index is written to file2
RewriteDefInds ==
    /\ rewriting.pc = "copy"
    /\ rewriting.i > Len(dict[TRUE].words)
    /\ RewriteStep([d \in Engine |-> rewrite_def_inds(CtxOf(d))], "rename", rewriting.i)

\* file2 is renamed to the original path and flush() returns
RewriteRename ==
    /\ rewriting.pc = "rename"
    /\ RewriteStep([d \in Engine |-> rewrite_rename(CtxOf(d))], "done", rewriting.i)

\* an error of the file system ends rewrite_file with an exception
RewriteFail ==
    /\ rewriting.pc \in { "copy", "rename" }
    /\ rewriting' = [rewriting EXCEPT !.pc = "failed"]
    /\ live' = [d \in Engine |-> "failed"]
    /\ UNCHANGED << disk, dict, ndebug, last, ins, within >>
    /\ UNCHANGED pipe_vars

RewriteNext ==
    \/ \E word \in Keys, def \in Defs, flush_words \in BOOLEAN :
          RewriteAdd(word, def, flush_words)
    \/ RewriteBegin
    \/ RewriteCopy
    \/ RewriteDefInds
    \/ RewriteRename
    \/ RewriteFail

(***************************************************************************)
(* Filling the word index table: init_reserved_words words are added one   *)
(* call at a time, so that the next new word makes flush() double          *)
(* reserved_words.                                                         *)
(***************************************************************************)
\* the i-th of the words the file is filled with: "cA", "cB", ...
FillKey(i) == << 99, 64 + i >>

\* no comparison of rewrite_file rejects a candidate with the same hash
FillSkips == [i \in 1..(init_reserved_words + MaxWords) |-> 0]

\* the table of the created file is full
Filled == \A d \in Engine : Len(dict[d].words) >= init_reserved_words

\* add_word(FillKey(n + 1), def) on the objects that hold n words
FullFill ==
    /\ \A d \in Engine : live[d] = "open"
    /\ ~Filled
    /\ \E word \in { FillKey(Len(dict[TRUE].words) + 1) } :
       \E def \in { IF Len(dict[TRUE].words) % 2 = 0 THEN << 120 >> ELSE << 121 >> } :
       \E R \in { [d \in Engine |-> add_word(CtxOf(d), word, def, FALSE, FALSE, FillSkips)] } :
         /\ Step(R, [NoCall EXCEPT !.op = "add_word", !.word = word])
         /\ ins' = [d \in Engine |->
                      IF Good(R[d]) /\ R[d].ret = TRUE
                      THEN ins[d] \cup { << word, def >> } ELSE ins[d]]
         /\ within' = [d \in Engine |-> within[d] /\ Good(R[d])]
    /\ UNCHANGED ndebug
    /\ UNCHANGED << rewriting, pipe_vars >>

\* add_word(word, def) on the objects of the full file
FullAddWord(word, def) ==
    /\ \A d \in Engine : live[d] = "open"
    /\ Filled
    /\ \A d \in Engine : Len(dict[d].words) < init_reserved_words + MaxWords
    /\ \E R \in { [d \in Engine |->
                     add_word(CtxOf(d), word, def, FALSE, FALSE, FillSkips)] } :
         /\ Step(R, [NoCall EXCEPT !.op = "add_word", !.word = word])
         /\ ins' = [d \in Engine |->
                      IF Good(R[d]) /\ R[d].ret = TRUE
                      THEN ins[d] \cup { << word, def >> } ELSE ins[d]]
         /\ within' = [d \in Engine |-> within[d] /\ Good(R[d])]
    /\ UNCHANGED ndebug
    /\ UNCHANGED << rewriting, pipe_vars >>

\* flush() on the objects once the table is full, the loop of rewrite_file
\* followed 8 passes at a time
FullFlush ==
    /\ \A d \in Engine : live[d] = "open"
    /\ Filled
    /\ \E R \in { [d \in Engine |-> flush_in_passes(CtxOf(d), 8, FillSkips)] } :
         /\ Step(R, [NoCall EXCEPT !.op = "flush"])
         /\ within' = [d \in Engine |-> within[d] /\ Good(R[d])]
    /\ UNCHANGED << ndebug, ins >>
    /\ UNCHANGED << rewriting, pipe_vars >>

FullNext ==
    \/ FullFill
    \/ \E word \in Keys, def \in Defs \ { << >> } : FullAddWord(word, def)
    \/ FullFlush

(***************************************************************************)
(* The batch build pipeline (dict_parse): one file reader, the HTTP        *)
(* workers and the main thread, which is the single consumer.  Every step  *)
(* is one atomic operation of a thread, or a run of a thread's operations  *)
(* that no other thread can tell apart from one.  x.wait(old) returns when *)
(* x differs from old.                                                     *)
(***************************************************************************)
\* 16 workers and rings of 64 and 8 slots in the source
num_http_workers == 2
word_buf_size == 2
def_buf_size == 2
\* bound on the number of lines of words.txt
MaxLines == 2

Workers == 1..num_http_workers

\* the lines words.txt may hold: "A" and "b"
Lines == { << 65 >>, << 98 >> }
\* words.txt has no duplicates
WordsTxt ==
    { t \in UNION { [1..n -> Lines] : n \in 0..MaxLines } :
        \A i \in 1..Len(t) : \A j \in 1..Len(t) : i # j => t[i] # t[j] }

\* std::tolower on every byte of the line
ToLower(word) == [i \in 1..Len(word) |-> IF 65 <= word[i] /\ word[i] <= 90
                                            THEN word[i] + 32 ELSE word[i]]

\* the body of the 200 response to the request for word: "1" for "a", "[]"
\* for every other word
api_body(word) == IF word = << 97 >> THEN << 49 >> ELSE << 91, 93 >>

\* the JSON events of text re-encoded as CBOR: a digit is an unsigned
\* integer below 24, "[" and "]" open and close an array of indefinite
\* length; a text that is not one value makes the cursor throw
json_to_cbor(text) ==
    IF Len(text) = 1 /\ 48 <= text[1] /\ text[1] <= 57
    THEN [ok |-> TRUE, bytes |-> << text[1] - 48 >>]
    ELSE IF text = << 91, 93 >>
    THEN [ok |-> TRUE, bytes |-> << 159, 255 >>]
    ELSE [ok |-> FALSE, bytes |-> << >>]

\* a moved-from std::string is left empty
MovedFrom == << >>

HwStart == [pc |-> "loop", ind |-> 0, word |-> << >>, body |-> << >>, next |-> 0]

\* main up to the start of the threads: data.sdict is removed and created anew
PipeInit ==
    /\ words_txt \in WordsTxt
    /\ ndebug \in BOOLEAN
    /\ fr = [pc |-> "getline", read |-> 0, word |-> << >>, next |-> 0]
    /\ hw = [w \in Workers |-> HwStart]
    /\ mainpc = "loop"
    /\ word_buf = [i \in 0..(word_buf_size - 1) |-> << >>]
    /\ word_buf_start = 0 /\ word_buf_end = 0
    /\ def_buf = [i \in 0..(def_buf_size - 1) |-> << << >>, << >> >>]
    /\ def_buf_start = 0 /\ def_buf_end = 0
    /\ word_lock = 0
    /\ word_finished = FALSE /\ def_finished = FALSE
    /\ \E r \in { open(Ctx(NewObject(TRUE), NoFile, NoFile, ndebug), TRUE, TRUE, TRUE) } :
          dict_file = [o |-> r.o, main |-> r.main, tmp |-> r.tmp]
    /\ added = << >>
    /\ num_flushes = 0
    /\ ended = ""

\* no pipeline runs
PipeIdle ==
    /\ words_txt = << >>
    /\ fr = [pc |-> "none", read |-> 0, word |-> << >>, next |-> 0]
    /\ hw = [w \in Workers |-> [HwStart EXCEPT !.pc = "none"]]
    /\ mainpc = "none"
    /\ word_buf = [i \in 0..(word_buf_size - 1) |-> << >>]
    /\ word_buf_start = 0 /\ word_buf_end = 0
    /\ def_buf = [i \in 0..(def_buf_size - 1) |-> << << >>, << >> >>]
    /\ def_buf_start = 0 /\ def_buf_end = 0
    /\ word_lock = 0
    /\ word_finished = FALSE /\ def_finished = FALSE
    /\ dict_file = [o |-> NewObject(TRUE), main |-> NoFile, tmp |-> NoFile]
    /\ added = << >>
    /\ num_flushes = 0
    /\ ended = ""

\* no engine of the comparison is constructed
EngineIdle ==
    /\ disk = [d \in Engine |-> [main |-> NoFile, tmp |-> NoFile]]
    /\ dict = [d \in Engine |-> NewObject(d)]
    /\ live = [d \in Engine |-> "none"]
    /\ last = [d \in Engine |-> NoCall]
    /\ ins = [d \in Engine |-> {}]
    /\ within = [d \in Engine |-> TRUE]
    /\ rewriting = NoRewrite

Running == ended = ""

\* file_read_worker: getline, tolower, next = (word_buf_end + 1) % size; at
\* the end of the file word_finished is set
FrGetline ==
    /\ Running /\ fr.pc = "getline"
    /\ IF fr.read < Len(words_txt)
       THEN /\ fr' = [pc |-> "wait", read |-> fr.read + 1,
                      word |-> ToLower(words_txt[fr.read + 1]),
                      next |-> (word_buf_end + 1) % word_buf_size]
            /\ UNCHANGED word_finished
       ELSE /\ fr' = [fr EXCEPT !.pc = "done"]
            /\ word_finished' = TRUE
    /\ UNCHANGED << words_txt, hw, mainpc, word_buf, word_buf_start, word_buf_end,
                    def_buf, def_buf_start, def_buf_end, word_lock, def_finished,
                    dict_file, added, num_flushes, ended >>
    /\ UNCHANGED engine_vars

\* file_read_worker: word_buf_start.wait(next), store the word, publish it
FrPut ==
    /\ Running /\ fr.pc = "wait"
    /\ word_buf_start # fr.next
    /\ word_buf' = [word_buf EXCEPT ![word_buf_end] = fr.word]
    /\ word_buf_end' = fr.next
    /\ fr' = [fr EXCEPT !.pc = "getline", !.word = MovedFrom]
    /\ UNCHANGED << words_txt, hw, mainpc, word_buf_start,
                    def_buf, def_buf_start, def_buf_end, word_lock, word_finished,
                    def_finished, dict_file, added, num_flushes, ended >>
    /\ UNCHANGED engine_vars

\* http_worker: the loop condition
HwLoop(w) ==
    /\ Running /\ hw[w].pc = "loop"
    /\ hw' = [hw EXCEPT ![w].pc = IF ~word_finished \/ word_buf_start # word_buf_end
                                  THEN "read_ind" ELSE "finish"]
    /\ UNCHANGED << words_txt, fr, mainpc, word_buf, word_buf_start, word_buf_end,
                    def_buf, def_buf_start, def_buf_end, word_lock, word_finished,
                    def_finished, dict_file, added, num_flushes, ended >>
    /\ UNCHANGED engine_vars

\* http_worker: ind = word_buf_start
HwReadInd(w) ==
    /\ Running /\ hw[w].pc = "read_ind"
    /\ hw' = [hw EXCEPT ![w].pc = "wait_word", ![w].ind = word_buf_start]
    /\ UNCHANGED << words_txt, fr, mainpc, word_buf, word_buf_start, word_buf_end,
                    def_buf, def_buf_start, def_buf_end, word_lock, word_finished,
                    def_finished, dict_file, added, num_flushes, ended >>
    /\ UNCHANGED engine_vars

\* http_worker: word_buf_end.wait(ind) returns, then word_lock.try_lock()
HwTryLock(w) ==
    /\ Running /\ hw[w].pc = "wait_word"
    /\ word_buf_end # hw[w].ind
    /\ IF word_lock = 0
       THEN word_lock' = w /\ hw' = [hw EXCEPT ![w].pc = "take"]
       ELSE UNCHANGED word_lock /\ hw' = [hw EXCEPT ![w].pc = "read_ind"]
    /\ UNCHANGED << words_txt, fr, mainpc, word_buf, word_buf_start, word_buf_end,
                    def_buf, def_buf_start, def_buf_end, word_finished,
                    def_finished, dict_file, added, num_flushes, ended >>
    /\ UNCHANGED engine_vars

\* http_worker: the word is moved out of word_buf[ind], word_buf_start is set
\* from ind and the mutex is released
HwTake(w) ==
    /\ Running /\ hw[w].pc = "take"
    /\ hw' = [hw EXCEPT ![w].pc = "get", ![w].word = word_buf[hw[w].ind]]
    /\ word_buf' = [word_buf EXCEPT ![hw[w].ind] = MovedFrom]
    /\ word_buf_start' = (hw[w].ind + 1) % word_buf_size
    /\ word_lock' = 0
    /\ UNCHANGED << words_txt, fr, mainpc, word_buf_end,
                    def_buf, def_buf_start, def_buf_end, word_finished,
                    def_finished, dict_file, added, num_flushes, ended >>
    /\ UNCHANGED engine_vars

\* http_worker: the request is answered with 200; next = (def_buf_end + 1) % size
HwGet(w) ==
    /\ Running /\ hw[w].pc = "get"
    /\ hw' = [hw EXCEPT ![w].pc = "wait_def", ![w].body = api_body(hw[w].word),
                        ![w].next = (def_buf_end + 1) % def_buf_size]
    /\ UNCHANGED << words_txt, fr, mainpc, word_buf, word_buf_start, word_buf_end,
                    def_buf, def_buf_start, def_buf_end, word_lock, word_finished,
                    def_finished, dict_file, added, num_flushes, ended >>
    /\ UNCHANGED engine_vars

\* http_worker: the request fails or is not answered with 200: std::exit(-1)
HwGetFail(w) ==
    /\ Running /\ hw[w].pc = "get"
    /\ ended' = "exit"
    /\ UNCHANGED << words_txt, fr, hw, mainpc, word_buf, word_buf_start, word_buf_end,
                    def_buf, def_buf_start, def_buf_end, word_lock, word_finished,
                    def_finished, dict_file, added, num_flushes >>
    /\ UNCHANGED engine_vars

\* http_worker: def_buf_start.wait(next) returns, then def_finished.test()
HwWaitDef(w) ==
    /\ Running /\ hw[w].pc = "wait_def"
    /\ def_buf_start # hw[w].next
    /\ hw' = [hw EXCEPT ![w].pc = IF def_finished THEN "returned" ELSE "put"]
    /\ UNCHANGED << words_txt, fr, mainpc, word_buf, word_buf_start, word_buf_end,
                    def_buf, def_buf_start, def_buf_end, word_lock, word_finished,
                    def_finished, dict_file, added, num_flushes, ended >>
    /\ UNCHANGED engine_vars

\* http_worker: def_buf[def_buf_end] = { word, body }; def_buf_end = next
HwPut(w) ==
    /\ Running /\ hw[w].pc = "put"
    /\ def_buf' = [def_buf EXCEPT ![def_buf_end] = << hw[w].word, hw[w].body >>]
    /\ def_buf_end' = hw[w].next
    /\ hw' = [hw EXCEPT ![w].pc = "loop", ![w].word = MovedFrom, ![w].body = MovedFrom]
    /\ UNCHANGED << words_txt, fr, mainpc, word_buf, word_buf_start, word_buf_end,
                    def_buf_start, word_lock, word_finished,
                    def_finished, dict_file, added, num_flushes, ended >>
    /\ UNCHANGED engine_vars

\* http_worker: after the loop def_finished is set
HwFinish(w) ==
    /\ Running /\ hw[w].pc = "finish"
    /\ def_finished' = TRUE
    /\ hw' = [hw EXCEPT ![w].pc = "done"]
    /\ UNCHANGED << words_txt, fr, mainpc, word_buf, word_buf_start, word_buf_end,
                    def_buf, def_buf_start, def_buf_end, word_lock, word_finished,
                    dict_file, added, num_flushes, ended >>
    /\ UNCHANGED engine_vars

\* main: the loop condition
MainLoop ==
    /\ Running /\ mainpc = "loop"
    /\ mainpc' = IF ~def_finished \/ def_buf_start # def_buf_end THEN "wait" ELSE "flush"
    /\ UNCHANGED << words_txt, fr, hw, word_buf, word_buf_start, word_buf_end,
                    def_buf, def_buf_start, def_buf_end, word_lock, word_finished,
                    def_finished, dict_file, added, num_flushes, ended >>
    /\ UNCHANGED engine_vars

\* main: def_buf_end.wait(def_buf_start) returns; the pair is moved out, the
\* body is re-encoded and add_word<false, true> is called; an exception
\* leaves main
MainTake ==
    /\ Running /\ mainpc = "wait"
    /\ def_buf_end # def_buf_start
    /\ def_buf' = [def_buf EXCEPT ![def_buf_start] = << MovedFrom, MovedFrom >>]
    /\ def_buf_start' = (def_buf_start + 1) % def_buf_size
    /\ \E p \in { def_buf[def_buf_start] } :
       \E cbor \in { json_to_cbor(p[2]) } :
       \E r \in { IF cbor.ok
                  THEN add_word(Ctx(dict_file.o, dict_file.main, dict_file.tmp, ndebug),
                                p[1], cbor.bytes, FALSE, TRUE, NoSkips)
                  ELSE Throw(Ctx(dict_file.o, dict_file.main, dict_file.tmp, ndebug),
                             "json parse error") } :
          /\ dict_file' = [o |-> r.o, main |-> r.main, tmp |-> r.tmp]
          /\ added' = IF cbor.ok THEN Append(added, << p[1], cbor.bytes >>) ELSE added
          /\ IF Good(r)
             THEN mainpc' = "loop" /\ UNCHANGED ended
             ELSE mainpc' = "terminated" /\ ended' = "terminate"
    /\ UNCHANGED << words_txt, fr, hw, word_buf, word_buf_start, word_buf_end,
                    def_buf_end, word_lock, word_finished, def_finished, num_flushes >>
    /\ UNCHANGED engine_vars

\* main: dict_file.flush()
MainFlush ==
    /\ Running /\ mainpc = "flush"
    /\ \E r \in { flush(Ctx(dict_file.o, dict_file.main, dict_file.tmp, ndebug), NoSkips) } :
          /\ dict_file' = [o |-> r.o, main |-> r.main, tmp |-> r.tmp]
          /\ IF Good(r)
             THEN mainpc' = "join" /\ UNCHANGED ended
             ELSE mainpc' = "terminated" /\ ended' = "terminate"
    /\ num_flushes' = num_flushes + 1
    /\ UNCHANGED << words_txt, fr, hw, word_buf, word_buf_start, word_buf_end,
                    def_buf, def_buf_start, def_buf_end, word_lock, word_finished,
                    def_finished, added >>
    /\ UNCHANGED engine_vars

\* main returns: the jthreads are joined, then dict_file is destroyed
MainJoin ==
    /\ Running /\ mainpc = "join"
    /\ \A w \in Workers : hw[w].pc \in { "done", "returned" }
    /\ fr.pc = "done"
    /\ mainpc' = "done"
    /\ UNCHANGED << words_txt, fr, hw, word_buf, word_buf_start, word_buf_end,
                    def_buf, def_buf_start, def_buf_end, word_lock, word_finished,
                    def_finished, dict_file, added, num_flushes, ended >>
    /\ UNCHANGED engine_vars

PipeNext ==
    \/ FrGetline
    \/ FrPut
    \/ \E w \in Workers : HwLoop(w)
    \/ \E w \in Workers : HwReadInd(w)
    \/ \E w \in Workers : HwTryLock(w)
    \/ \E w \in Workers : HwTake(w)
    \/ \E w \in Workers : HwGet(w)
    \/ \E w \in Workers : HwGetFail(w)
    \/ \E w \in Workers : HwWaitDef(w)
    \/ \E w \in Workers : HwPut(w)
    \/ \E w \in Workers : HwFinish(w)
    \/ MainLoop
    \/ MainTake
    \/ MainFlush
    \/ MainJoin

(***************************************************************************)
(* Specifications                                                          *)
(***************************************************************************)
vars == << disk, dict, live, ndebug, last, ins, within, rewriting,
           words_txt, fr, hw, mainpc, word_buf, word_buf_start, word_buf_end,
           def_buf, def_buf_start, def_buf_end, word_lock, word_finished,
           def_finished, dict_file, added, num_flushes, ended >>

\* the keys of the calls made outside the contract
ShortKeys == { << 97 >>, << 98 >> }

\* the engine under calls that respect the interface's contract
Init == EngineInit /\ PipeIdle
Next == EngineNext
Spec == Init /\ [][Next]_vars

\* the engine under any call
AnyCallNext ==
    \/ \E word \in ShortKeys, def \in Defs, flush_words \in BOOLEAN, skip_dup_check \in BOOLEAN :
          AddWordCall(word, def, flush_words, skip_dup_check)
    \/ Flush
    \/ Reopen(TRUE)
AnyCallSpec == Init /\ [][AnyCallNext]_vars

\* opening what a path holds
OpenStart == OpenInit /\ PipeIdle
OpenSpec == OpenStart /\ [][OpenNext]_vars

\* a flush that rewrites the file, statement by statement
RewriteSpec == Init /\ [][RewriteNext]_vars

\* calls on a file whose word index table is full
FullSpec == Init /\ [][FullNext]_vars

\* the pipeline
PipeStart == PipeInit /\ EngineIdle
PipeSpec == PipeStart /\ [][PipeNext]_vars

(***************************************************************************)
(* The storage engine: properties                                          *)
(***************************************************************************)
\* the keys inserted so far
KeysOf(d) == { p[1] : p \in ins[d] }

\* the object is open and holds exactly what was inserted
HoldsInserted(d) ==
    /\ live[d] = "open"
    /\ num_words(dict[d]) = Cardinality(KeysOf(d))
    /\ \A k \in Keys : contains(dict[d], k) <=> k \in KeysOf(d)
    /\ \A p \in ins[d] : FindNow(d, p[1]) = [ok |-> TRUE, found |-> TRUE, def |-> p[2]]

\* C1: after calls within the contract, all flushed, and a reopen of the
\* file, every inserted key is found with exactly the bytes passed for it, a
\* key never inserted is not contained, and num_words() is the number of
\* inserted keys
C1_RoundTrip ==
    \A d \in Engine :
        (last[d].op = "reopen" /\ ~last[d].pending /\ within[d]) => HoldsInserted(d)

\* C8: when the object is destroyed with words added and not flushed, the
\* destructor flushes them: the reopened file holds every added key with its
\* definition
C8_DestructorFlushes ==
    \A d \in Engine :
        (last[d].op = "reopen" /\ last[d].pending /\ within[d]) => HoldsInserted(d)

\* C2: with the duplicate check enabled add_word returns TRUE exactly when
\* the key was not present; for a key that was present it leaves num_words()
\* and the bytes of the file as they were and find still returns the
\* definition of the first insertion
C2_DuplicateRejected ==
    \A d \in Engine :
        (live[d] = "open" /\ within[d] /\ last[d].op = "add_word") =>
            /\ last[d].ret = ~last[d].present
            /\ last[d].present =>
                  /\ ~last[d].grew
                  /\ ~last[d].wrote
                  /\ \E p \in ins[d] :
                        /\ p[1] = last[d].word
                        /\ FindNow(d, p[1]) = [ok |-> TRUE, found |-> TRUE, def |-> p[2]]

\* C3: after the same calls the object that deduplicates and the object that
\* does not answer contains and find alike for every key
C3_DedupTransparent ==
    (\A d \in Engine : live[d] = "open" /\ within[d]) =>
        \A k \in Keys :
            /\ contains(dict[TRUE], k) = contains(dict[FALSE], k)
            /\ FindNow(TRUE, k) = FindNow(FALSE, k)

\* every stored word's record is read back with its hash verified
HashIntact(d) ==
    \A i \in 1..Len(dict[d].words) :
        Good(read_def_whole([CtxOf(d) EXCEPT !.o.failbit = FALSE],
                            dict[d].words[i].def_ind, TRUE))

\* C4: the hash field of every definition record of the file is the FNV-1a
\* hash of the record's payload
C4_HashIntegrity ==
    \A d \in Engine : (live[d] = "open" /\ within[d]) => HashIntact(d)

\* no key is twice in the word list of the object
NoRepeatedKey(ws) ==
    \A i \in 1..Len(ws) : \A j \in 1..Len(ws) : i # j => ws[i].word # ws[j].word

\* the first num_words entries of the word index of the file b are not 0 and
\* pairwise distinct, and each points at a null-terminated key inside the
\* words section, the keys pairwise distinct
DiskIndexSound(b) ==
    LET rw == U32Val(read_uint32_LE(b, 7))
        wss == U32Val(read_uint32_LE(b, 11))
        n == U32Val(read_uint32_LE(b, 15))
        Entry(i) == U32Val(read_uint32_LE(b, inds_section_offset + 4 * (i - 1)))
        First(i) == words_section_offset(rw) + Entry(i)
        Null(i) == FirstNull(b, First(i), words_section_offset(rw) + wss)
        Key(i) == SubSeq(b, First(i), Null(i) - 1)
    IN  /\ n <= rw
        /\ \A i \in 1..n : Entry(i) >= 1 /\ Entry(i) <= wss /\ Null(i) # 0
        /\ \A i \in 1..n : \A j \in 1..n :
              i # j => Entry(i) # Entry(j) /\ Key(i) # Key(j)

\* C5: with the duplicate check enabled no key is stored twice, in the
\* object or in the word index of the file
C5_KeyUniqueness ==
    \A d \in Engine :
        (live[d] = "open" /\ within[d]) =>
            /\ NoRepeatedKey(dict[d].words)
            /\ DiskIndexSound(disk[d].main.bytes)

\* a duplicate insertion was rejected by an object that holds several keys,
\* all of them indexed by the file, which was rewritten with a larger words
\* section
C5_Witness ==
    \E d \in Engine :
        /\ live[d] = "open" /\ within[d]
        /\ last[d].op = "add_word" /\ last[d].present /\ last[d].ret = FALSE
        /\ Len(dict[d].words) >= 2
        /\ dict[d].words_sect_size > init_words_sect_size
        /\ U32Val(read_uint32_LE(disk[d].main.bytes, 15)) = Len(dict[d].words)

\* the bytes of the definitions section of the file
DefsSectionSize(d) ==
    Len(disk[d].main.bytes)
        - defs_section_offset(dict[d].reserved_words, dict[d].words_sect_size)

RECURSIVE RecordBytes(_)
\* the bytes the records of the payloads of S take: 12 of header each
RecordBytes(S) ==
    IF S = {} THEN 0
    ELSE LET v == CHOOSE x \in S : TRUE IN Len(v) + 12 + RecordBytes(S \ { v })

\* C9: with deduplication the definitions section is no larger than the
\* distinct payloads inserted, each with its 12 bytes of header
C9_DedupStorageBound ==
    (live[TRUE] = "open" /\ within[TRUE]) =>
        DefsSectionSize(TRUE) <= RecordBytes({ p[2] : p \in ins[TRUE] })

\* C10: add_word of an empty definition for a key that is not stored fails
\* with an error, adds no key and writes nothing
C10_EmptyRejected ==
    \A d \in Engine :
        (last[d].op = "add_word" /\ last[d].empty /\ ~last[d].present) =>
            /\ last[d].st # "ok"
            /\ ~last[d].grew
            /\ ~last[d].wrote

(***************************************************************************)
(* The batch build pipeline: properties                                    *)
(***************************************************************************)
\* the words of the input, lowercased
InputWords == { ToLower(words_txt[i]) : i \in 1..Len(words_txt) }

\* the add_word call the input word makes due
Expected(word) == << word, json_to_cbor(api_body(word)).bytes >>

\* C6: while no request has failed, every add_word call of the consumer
\* passes an input word, lowercased, with the body fetched for it, no word is
\* passed twice, there is at most one flush, and once the consumer has
\* flushed every input word has been passed
C6_EveryWordAddedOnce ==
    ended # "exit" =>
        /\ \A i \in 1..Len(added) : added[i] \in { Expected(word) : word \in InputWords }
        /\ \A i \in 1..Len(added) : \A j \in 1..Len(added) : i # j => added[i][1] # added[j][1]
        /\ num_flushes <= 1
        /\ num_flushes = 1 => InputWords \subseteq { added[i][1] : i \in 1..Len(added) }

\* C7: once the reader has set word_finished and while the process has not
\* been ended, the pipeline stops only when every worker has exited and main
\* has left its loop, flushed and joined the threads
C7_PipelineTerminates ==
    (word_finished /\ Running /\ ~ENABLED PipeNext) =>
        /\ \A w \in Workers : hw[w].pc \in { "done", "returned" }
        /\ mainpc = "done"
        /\ num_flushes = 1


(***************************************************************************)
(* Opening a path                                                          *)
(***************************************************************************)
\* the call was open(filename, ...) on a path holding kind
OpenedOn(d, kind) == last[d].op = "open" /\ last[d].path = kind

\* C11: open on a path that does not exist, with create_if_not_exists,
\* creates the file: the magic, reserved_words 32, words_sect_size 256,
\* num_words 0, both index tables zero, 256 zero bytes of words and no
\* definitions; created_file is TRUE and num_words() is 0.  Opening that
\* file succeeds with created_file FALSE and no words.
C11_FreshFileCreation ==
    \A d \in Engine :
       LET fresh == magic_bytes \o write_uint32_LE(32) \o write_uint32_LE(256)
                      \o write_uint32_LE(0) \o Zeros(8 * 32) \o Zeros(256)
       IN  /\ (OpenedOn(d, "absent") /\ last[d].args[1])
                 => /\ last[d].st = "ok"
                    /\ disk[d].main = MkFile(fresh)
                    /\ dict[d].created_file
                    /\ num_words(dict[d]) = 0
           /\ (OpenedOn(d, "file") /\ disk[d].main.bytes = fresh)
                 => /\ last[d].st = "ok"
                    /\ ~last[d].wrote
                    /\ ~dict[d].created_file
                    /\ num_words(dict[d]) = 0

\* a created file has been opened again
C11_Witness ==
    \E d \in Engine :
       /\ OpenedOn(d, "file") /\ last[d].st = "ok"
       /\ Len(disk[d].main.bytes) = 531
       /\ read_uint32_LE(disk[d].main.bytes, 15) = write_uint32_LE(0)
       /\ ~dict[d].created_file /\ within[d]

NumAt(b, pos) ==
    IF b[pos + 3] = 0 /\ b[pos + 4] = 0 THEN b[pos + 1] + 256 * b[pos + 2] ELSE Huge

\* the header of b is one that open has to refuse
BadHeader(b) ==
    \/ Len(b) < 7
    \/ SubSeq(b, 1, 7) # << 83, 68, 73, 67, 84, 1, 0 >>
    \/ Len(b) < 19
    \/ NumAt(b, 7) = 0
    \/ NumAt(b, 11) = 0
    \/ NumAt(b, 15) > NumAt(b, 7)
    \/ Len(b) < 19 + 8 * NumAt(b, 7)

\* the call has ended in an exception
Failed(d) == last[d].st \notin { "ok", "abort" }

\* C13: open of a regular file fails when its first 7 bytes are not the
\* magic SDICT 1 0, when reserved_words is 0, words_sect_size is 0 or
\* num_words > reserved_words, and when the file ends before the magic, the
\* header or the index tables; a file of 0 bytes fails with "Unexpected EOF"
C13_HeaderValidation ==
    \A d \in Engine :
       OpenedOn(d, "file") =>
          /\ BadHeader(disk[d].main.bytes) => Failed(d)
          /\ disk[d].main.bytes = << >> => last[d].st = "Unexpected EOF"

\* a file with another version byte has been refused
C13_Witness ==
    \E d \in Engine :
       /\ OpenedOn(d, "file")
       /\ Len(disk[d].main.bytes) >= 19
       /\ SubSeq(disk[d].main.bytes, 1, 5) = << 83, 68, 73, 67, 84 >>
       /\ disk[d].main.bytes[6] # 1
       /\ last[d].st = "Incorrect magic bytes. File may be corrupted"

\* the slots of the index table at byte offset pos of b that are not 0
UsedSlots(b, pos) == { i \in 1..NumAt(b, 7) : NumAt(b, pos + 4 * (i - 1)) # 0 }
WordSlot(b, i) == NumAt(b, 19 + 4 * (i - 1))
DefSlot(b, i) == NumAt(b, 19 + 4 * NumAt(b, 7) + 4 * (i - 1))

\* the key of word slot i ends with a null inside the words section and the
\* file, after n characters
KeyEndsAfter(b, i, n) ==
    LET p == 19 + 8 * NumAt(b, 7) + WordSlot(b, i) - 1
    IN  /\ (WordSlot(b, i) - 1) + n < NumAt(b, 11)
        /\ p + n + 1 <= Len(b)
        /\ b[p + n + 1] = 0
        /\ \A k \in 1..n : b[p + k] # 0
KeyOfSlot(b, i, n) ==
    LET p == 19 + 8 * NumAt(b, 7) + WordSlot(b, i) - 1 IN SubSeq(b, p + 1, p + n)

\* the index tables of b are such that open has to refuse the file
BadIndex(b) ==
    \/ Cardinality(UsedSlots(b, 19)) # NumAt(b, 15)
    \/ Cardinality(UsedSlots(b, 19 + 4 * NumAt(b, 7))) # NumAt(b, 15)
    \/ \E i, j \in UsedSlots(b, 19) : i # j /\ WordSlot(b, i) = WordSlot(b, j)
    \/ \E i, j \in UsedSlots(b, 19) : \E n \in 0..2 :
          /\ i # j
          /\ KeyEndsAfter(b, i, n) /\ KeyEndsAfter(b, j, n)
          /\ KeyOfSlot(b, i, n) = KeyOfSlot(b, j, n)

\* two used slots of the def-index table hold the same offset
SharesDef(b) ==
    \E i, j \in UsedSlots(b, 19 + 4 * NumAt(b, 7)) : i # j /\ DefSlot(b, i) = DefSlot(b, j)

\* C14: open fails when the number of entries that are not 0 in either index
\* table differs from num_words, when two entries have the same word offset
\* and when two entries resolve to the same key; a file written with two
\* words that share a def offset is accepted; after a successful open the
\* list in memory holds num_words keys, pairwise distinct and sorted, and
\* no unflushed tail
C14_IndexValidation ==
    \A d \in Engine :
       LET b == disk[d].main.bytes
       IN  (OpenedOn(d, "file") /\ ~BadHeader(b)) =>
              /\ BadIndex(b) => Failed(d)
              /\ (within[d] /\ SharesDef(b)) => last[d].st = "ok"
              /\ last[d].st = "ok" =>
                    /\ Len(dict[d].words) = NumAt(b, 15)
                    /\ \A i \in 1..(Len(dict[d].words) - 1) :
                          StrLess(dict[d].words[i].word, dict[d].words[i + 1].word)
                    /\ dict[d].first_new_word = NONE

\* a file whose two words share a def offset has been opened
C14_Witness ==
    \E d \in Engine :
       LET b == disk[d].main.bytes
       IN  /\ OpenedOn(d, "file") /\ ~BadHeader(b) /\ within[d]
           /\ SharesDef(b)
           /\ last[d].st = "ok"
           /\ Len(dict[d].words) = 2

\* the byte offset in b of the record that def slot i points at
RecordAt(b, i) == 19 + 8 * NumAt(b, 7) + NumAt(b, 11) + DefSlot(b, i) - 1

\* the record at byte offset p lies in b: 4 bytes of size, not 0, 8 of hash
\* and size bytes of payload
RecordComplete(b, p) ==
    /\ p + 12 <= Len(b)
    /\ NumAt(b, p) > 0
    /\ p + 12 + NumAt(b, p) <= Len(b)

\* the hash stored in the record at p is the FNV-1a hash of its payload
HashMatches(b, p) ==
    fnv1a(SubSeq(b, p + 13, p + 12 + NumAt(b, p))) = SubSeq(b, p + 5, p + 12)

\* the header and the index of b are valid, b holds the words section and
\* every record a word points at is complete
Readable(b) ==
    /\ ~BadHeader(b) /\ ~BadIndex(b)
    /\ 19 + 8 * NumAt(b, 7) + NumAt(b, 11) <= Len(b)
    /\ \A i \in UsedSlots(b, 19 + 4 * NumAt(b, 7)) : RecordComplete(b, RecordAt(b, i))

\* C15: open with check_defs fails with "Definition hash does not match"
\* when the payload of a definition that a word points at does not hash to
\* the value stored in its record; a file whose definitions all match is
\* accepted
C15_HashVerification ==
    \A d \in Engine :
       LET b == disk[d].main.bytes
           refs == UsedSlots(b, 19 + 4 * NumAt(b, 7))
       IN  (OpenedOn(d, "file") /\ Readable(b)) =>
              /\ (last[d].args[2] /\ \E i \in refs : ~HashMatches(b, RecordAt(b, i)))
                    => last[d].st = "Definition hash does not match. File may be corrupted"
              /\ (\A i \in refs : HashMatches(b, RecordAt(b, i))) => last[d].st = "ok"

\* a file with a changed payload byte has been refused
C15_Witness ==
    \E d \in Engine :
       LET b == disk[d].main.bytes
       IN  /\ OpenedOn(d, "file") /\ Readable(b) /\ last[d].args[2]
           /\ \E i \in UsedSlots(b, 19 + 4 * NumAt(b, 7)) :
                 /\ ~HashMatches(b, RecordAt(b, i))
                 /\ b[RecordAt(b, i) + 13] \notin { 120, 121 }
           /\ last[d].st = "Definition hash does not match. File may be corrupted"

\* C16: open fails when the sections the header claims do not fit in the
\* file: when 19 + 8 * reserved_words + words_sect_size (the header, both
\* index tables and the words section) is more than the size of the file
C16_SizeCheck ==
    \A d \in Engine :
       LET b == disk[d].main.bytes
       IN  (/\ OpenedOn(d, "file")
            /\ Len(b) >= 19
            /\ 19 + 8 * NumAt(b, 7) + NumAt(b, 11) > Len(b))
              => Failed(d)

\* C17: on an object that has never been associated with a file, add_word,
\* flush, close and open() each throw a logic error and leave the object as
\* it was constructed (and the path as it was)
C17_OperationsBeforeOpen ==
    \A d \in Engine :
       (live[d] = "none" /\ last[d].op \in { "add_word", "flush", "close", "open0" }) =>
          /\ last[d].st \in LogicErrors
          /\ dict[d] = NewObject(TRUE)
          /\ ~last[d].wrote

\* close() has been called on an object with no file
C17_Witness ==
    \E d \in Engine :
       /\ live[d] = "none" /\ last[d].op = "close"
       /\ last[d].st = "No associated file. Call open(string_view) first"
       /\ dict[d].file_open_type = "no_file"

(***************************************************************************)
(* flush and the rewrite of the file                                       *)
(***************************************************************************)
\* flush() has returned
Flushed(d) == live[d] = "open" /\ last[d].op = "flush" /\ last[d].st = "ok"

\* C18: flush() returns TRUE exactly when there are unflushed words
\* (first_new_word is set) at the call; a flush() that returns FALSE leaves
\* the bytes of the file and the word list as they were; a flush() made
\* after a flush() that succeeded returns FALSE
C18_FlushReportsModification ==
    \A d \in Engine :
       Flushed(d) =>
          /\ last[d].ret = last[d].pending
          /\ ~last[d].ret => (~last[d].wrote /\ last[d].kept)
          /\ LET again == flush(CtxOf(d), NoSkips)
             IN  /\ Good(again) /\ again.ret = FALSE
                 /\ again.main = disk[d].main
                 /\ again.o.words = dict[d].words

\* a flush() of unflushed words has returned TRUE and written them
C18_Witness ==
    \E d \in Engine :
       /\ Flushed(d) /\ last[d].pending /\ last[d].ret = TRUE
       /\ last[d].wrote /\ dict[d].first_new_word = NONE
       /\ Len(dict[d].words) >= 2

\* the file of d has been written anew by a flush that grew a section, and
\* every word is flushed
Rewritten(d) ==
    /\ live[d] = "open" /\ within[d] /\ last[d].st = "ok"
    /\ last[d].op \in { "add_word", "flush" }
    /\ dict[d].first_new_word = NONE
    /\ (dict[d].words_sect_size > init_words_sect_size
          \/ dict[d].reserved_words > init_reserved_words)
    /\ ~BadHeader(disk[d].main.bytes)
    /\ NumAt(disk[d].main.bytes, 7) = dict[d].reserved_words
    /\ NumAt(disk[d].main.bytes, 11) = dict[d].words_sect_size

\* the byte offset in the file of d of the record of the i-th word in memory
RecordOfWord(d, i) ==
    defs_section_offset(dict[d].reserved_words, dict[d].words_sect_size)
        + dict[d].words[i].def_ind

\* the record at byte offset p of b is the record of payload v: its size,
\* the FNV-1a hash of v, and v
RecordOf(b, p, v) ==
    /\ RecordComplete(b, p)
    /\ NumAt(b, p) = Len(v)
    /\ SubSeq(b, p + 5, p + 12) = fnv1a(v)
    /\ SubSeq(b, p + 13, p + 12 + Len(v)) = v

\* C19: after a flush that rewrites the file, with or without
\* deduplication, the record at the new def offset of every word has the
\* size and the payload of the record the word had (those inserted for it)
\* and the layout size, hash, payload
C19_RewritePreservesDefinitions ==
    \A d \in Engine :
       Rewritten(d) =>
          \A i \in 1..Len(dict[d].words) :
             \A p \in ins[d] :
                p[1] = dict[d].words[i].word
                   => RecordOf(disk[d].main.bytes, RecordOfWord(d, i), p[2])

\* an operation on the open object d has returned
Returned(d) ==
    /\ live[d] = "open" /\ within[d] /\ last[d].st = "ok"
    /\ last[d].op \in { "open", "reopen", "add_word", "flush" }

\* C20: after a successful add_word, flush or open, the def offset of every
\* word, in memory and in the first num_words slots of the def-index table
\* of the file (stored as offset + 1), is the start of a complete record of
\* the file's definitions section with a size greater than 0
C20_ValidDefOffsets ==
    \A d \in Engine :
       LET b == disk[d].main.bytes
       IN  Returned(d) =>
              /\ \A i \in 1..Len(dict[d].words) : RecordComplete(b, RecordOfWord(d, i))
              /\ ~BadHeader(b) =>
                    \A i \in 1..NumAt(b, 15) :
                       DefSlot(b, i) # 0 /\ RecordComplete(b, RecordAt(b, i))

(***************************************************************************)
(* The index tables and the section sizes                                  *)
(***************************************************************************)
\* every word of the open object d is in the file: the file was created or
\* opened, or a flush has succeeded, and no word was added since
AllFlushed(d) ==
    /\ live[d] = "open" /\ within[d] /\ last[d].st = "ok"
    /\ last[d].op \in { "open", "add_word", "flush" }
    /\ dict[d].first_new_word = NONE

\* C21: after the creation of the file and after every flush that
\* succeeded, on either path, exactly the first num_words slots of the word
\* index and of the def index are not 0, the other reserved_words -
\* num_words slots are 0, and the header's num_words is the number of words
\* in memory
C21_IndexTableShape ==
    \A d \in Engine :
       LET b == disk[d].main.bytes
       IN  AllFlushed(d) =>
              /\ ~BadHeader(b)
              /\ NumAt(b, 7) = dict[d].reserved_words
              /\ NumAt(b, 15) = Len(dict[d].words)
              /\ UsedSlots(b, 19) = 1..NumAt(b, 15)
              /\ UsedSlots(b, 19 + 4 * NumAt(b, 7)) = 1..NumAt(b, 15)

\* what flush() leaves when it runs as one call from the context the
\* followed flush started in
WholeFlush(d) == flush(rewriting.start[d], rewriting.skips)

\* C22: while a flush rewrites the file, the file at the original path is
\* not written: every byte of the new layout goes to the sibling .tmp, and
\* the original path changes only by the rename at the end; at every step,
\* and when the rewrite fails part-way, the original path holds the complete
\* old file, and after the rename the complete new file
C22_AtomicReplacement ==
    \A d \in Engine :
       /\ rewriting.pc \in { "copy", "rename", "failed" }
             => /\ disk[d].main = rewriting.start[d].main
                /\ disk[d].tmp.exists
                /\ Len(disk[d].tmp.bytes)
                     >= defs_section_offset(dict[d].reserved_words, dict[d].words_sect_size)
       /\ rewriting.pc = "done"
             => /\ Good(WholeFlush(d))
                /\ disk[d].main = WholeFlush(d).main
                /\ dict[d] = WholeFlush(d).o
                /\ ~disk[d].tmp.exists
                /\ ~BadHeader(disk[d].main.bytes)
                /\ NumAt(disk[d].main.bytes, 15) = Len(dict[d].words)
                /\ NumAt(disk[d].main.bytes, 11) = dict[d].words_sect_size

\* the rewrite of a file of two words has copied the record of the first
\* word to the sibling, and the original path holds the old file
C22_Witness ==
    \E d \in Engine :
       /\ rewriting.pc = "copy" /\ rewriting.i = 2
       /\ Len(dict[d].words) >= 2
       /\ disk[d].tmp.exists
       /\ disk[d].main = rewriting.start[d].main
       /\ Len(disk[d].tmp.bytes) > defs_section_offset(dict[d].reserved_words,
                                                       dict[d].words_sect_size)

\* ---- The rings between the threads ----

\* the number of entries of a ring of the given size between start and end
RingCount(start, end, size) == (end - start + size) % size

\* C23: each pushed word is claimed exactly once: the worker that holds
\* word_lock takes the slot word_buf_start names, and that slot holds a word
\* nobody has taken (the ring is not empty); a word a worker carries was
\* therefore never the moved-from string of a slot taken twice
C23_EachWordClaimedOnce ==
    \A w \in Workers :
       /\ hw[w].pc = "take" => /\ hw[w].ind = word_buf_start
                               /\ word_buf_start # word_buf_end
                               /\ word_buf[hw[w].ind] # MovedFrom
       /\ hw[w].pc \in { "get", "wait_def", "put" } => hw[w].word # MovedFrom

\* the workers that are about to store the pair of an input word
Storing == { w \in Workers : hw[w].pc = "put" /\ hw[w].word \in InputWords }

\* C24: no definition is lost in the def ring: a worker that is about to
\* store the pair of an input word stores it in a free slot (the ring is not
\* full) and advances def_buf_end by one slot, so that no pair in the ring
\* is overwritten and no two workers store into the same slot
C24_NoDefinitionLost ==
    \A w \in Storing :
       /\ hw[w].next # def_buf_start
       /\ \A v \in Storing \ { w } : hw[v].next # hw[w].next

\* the workers that carry an input word whose pair is not in the def ring:
\* the word has been taken from the word ring, and the worker is in Get,
\* waits for a free slot, is about to store the pair, or has returned
\* without storing it
Carrying ==
    { w \in Workers : /\ hw[w].pc \in { "get", "wait_def", "put", "returned" }
                      /\ hw[w].word \in InputWords }

\* C25: def_finished is set by the last worker only: while def_finished is
\* set the reader has set word_finished, and no worker carries a word or a
\* fetched body that has not been stored in the def ring, so that no worker
\* returns with a fetched definition because of the flag
C25_FinishedByLastWorker ==
    def_finished => /\ word_finished
                    /\ Carrying = {}

\* the ring of the given size is full: one more entry would make end meet
\* start
RingFull(start, end, size) == (end + 1) % size = start

\* C26: bounded rings: the word ring holds at most word_buf_size and the def
\* ring at most def_buf_size entries that have not been consumed, and a
\* producer that is about to store an entry does so while its ring is not
\* full, in a slot whose entry has been consumed
C26_BoundedRings ==
    /\ RingCount(word_buf_start, word_buf_end, word_buf_size) <= word_buf_size
    /\ RingCount(def_buf_start, def_buf_end, def_buf_size) <= def_buf_size
    /\ ENABLED FrPut
          => /\ ~RingFull(word_buf_start, word_buf_end, word_buf_size)
             /\ word_buf[word_buf_end] = MovedFrom
    /\ \A w \in Storing :
          /\ ~RingFull(def_buf_start, def_buf_end, def_buf_size)
          /\ def_buf[def_buf_end] = << MovedFrom, MovedFrom >>

\* the slots of a ring of the given size from start up to end, in order
RECURSIVE RingSlots(_, _, _)
RingSlots(start, end, size) ==
    IF start = end THEN << >>
    ELSE << start >> \o RingSlots((start + 1) % size, end, size)

\* the pairs of the def ring that have not been dequeued, oldest first
DefQueue ==
    [k \in 1..RingCount(def_buf_start, def_buf_end, def_buf_size) |->
        def_buf[RingSlots(def_buf_start, def_buf_end, def_buf_size)[k]]]

\* C27: FIFO delivery: the def ring is a queue: the store of a worker
\* appends its pair behind the pairs that wait, the consumer dequeues the
\* oldest pair, and no other step changes the pairs that wait or their order
C27_FifoDelivery ==
    [][ /\ \A w \in Workers :
             HwPut(w) => DefQueue' = Append(DefQueue, << hw[w].word, hw[w].body >>)
        /\ MainTake => DefQueue' = Tail(DefQueue)
        /\ ~(MainTake \/ \E w \in Workers : HwPut(w)) => DefQueue' = DefQueue ]_vars

\* ---- The growth of the sections ----

\* n is a power of two
PowerOfTwo(n) == \E k \in 0..30 : n = 2 ^ k

\* C28: section sizes only grow by doubling: while the object of a file the
\* engine created is open, reserved_words and words_sect_size are powers of
\* two, at least init_reserved_words and init_words_sect_size, and no
\* add_word or flush makes either smaller
C28_SectionsGrowByDoubling ==
    [][ \A d \in Engine :
          live'[d] = "open" =>
             /\ PowerOfTwo(dict'[d].reserved_words)
             /\ PowerOfTwo(dict'[d].words_sect_size)
             /\ dict'[d].reserved_words >= init_reserved_words
             /\ dict'[d].words_sect_size >= init_words_sect_size
             /\ last'[d].op \in { "add_word", "flush" }
                   => /\ dict'[d].reserved_words >= dict[d].reserved_words
                      /\ dict'[d].words_sect_size >= dict[d].words_sect_size ]_vars

\* both sections of a file the engine created have been doubled by a flush of
\* more than init_reserved_words words
C28_Witness ==
    \E d \in Engine :
       /\ live[d] = "open" /\ last[d].op = "flush" /\ last[d].st = "ok"
       /\ Len(dict[d].words) > init_reserved_words
       /\ dict[d].reserved_words = 2 * init_reserved_words
       /\ dict[d].words_sect_size = 2 * init_words_sect_size

\* new is the smallest power-of-two multiple of old that is not below needed,
\* and is above old
MinimalGrowth(old, new, needed) ==
    /\ \E k \in 1..8 : new = old * 2 ^ k
    /\ new >= needed
    /\ new \div 2 < needed

\* the loops of flush() on a section of any size from 1 to 12 that has to
\* hold up to 40 entries
LoopsGrowMinimally ==
    \A old \in 1..12 : \A needed \in 0..40 :
       IF old >= needed THEN DoubleUntil(old, needed) = old
       ELSE MinimalGrowth(old, DoubleUntil(old, needed), needed)

HasCapacity(o) ==
    /\ o.reserved_words >= Len(o.words)
    /\ o.words_sect_size >= WordsLen(o.words, 1, Len(o.words))

\* C30: capacity after flush: after every flush that returns, reserved_words
\* is at least the number of words and words_sect_size at least the bytes of
\* the keys with their terminators, and a flush that calls rewrite_file
\* calls it with its two assertions holding
C30_CapacityAfterFlush ==
    \A d \in Engine :
       /\ live[d] = "open" /\ last[d].op = "flush" /\ last[d].st = "ok"
             => HasCapacity(dict[d])
       /\ live[d] = "open" /\ flush_until_rewrite(CtxOf(d)).rewrites
             => HasCapacity(flush_until_rewrite(CtxOf(d)).c.o)

\* a flush has rewritten the file for more words than the table held and
\* returned
C30_Witness ==
    \E d \in Engine :
       /\ live[d] = "open" /\ last[d].op = "flush" /\ last[d].st = "ok" /\ last[d].wrote
       /\ Len(dict[d].words) = init_reserved_words + MaxWords
       /\ dict[d].reserved_words > init_reserved_words

\* ---- The two paths of flush ----

\* the word list ws is sorted by key, with no key twice
SortedWords(ws) == \A i \in 1..(Len(ws) - 1) : StrLess(ws[i].word, ws[i + 1].word)

\* this step is a flush() of d that found unflushed words and returned
FlushOfPending(d) ==
    /\ live[d] = "open" /\ live'[d] = "open"
    /\ dict[d].first_new_word # NONE
    /\ last'[d].op = "flush" /\ last'[d].pending /\ last'[d].st = "ok"

\* C31: flush path selection: a flush() with unflushed words works in place
\* (the sections keep their sizes, the file its length and the sizes in its
\* header) exactly when reserved_words and words_sect_size hold all words
\* and keys; otherwise it rewrites the file with grown sections; either way
\* it leaves the word list sorted with first_new_word NONE
C31_FlushPathSelection ==
    [][ \A d \in Engine :
          FlushOfPending(d) =>
             /\ HasCapacity(dict[d])
                   => /\ dict'[d].reserved_words = dict[d].reserved_words
                      /\ dict'[d].words_sect_size = dict[d].words_sect_size
                      /\ Len(disk'[d].main.bytes) = Len(disk[d].main.bytes)
                      /\ SubSeq(disk'[d].main.bytes, 1, 14) = SubSeq(disk[d].main.bytes, 1, 14)
             /\ ~HasCapacity(dict[d])
                   => /\ flush_until_rewrite(CtxOf(d)).rewrites
                      /\ \/ dict'[d].reserved_words > dict[d].reserved_words
                         \/ dict'[d].words_sect_size > dict[d].words_sect_size
                      /\ NumAt(disk'[d].main.bytes, 7) = dict'[d].reserved_words
                      /\ NumAt(disk'[d].main.bytes, 11) = dict'[d].words_sect_size
             /\ HasCapacity(dict[d]) = ~flush_until_rewrite(CtxOf(d)).rewrites
             /\ dict'[d].first_new_word = NONE
             /\ SortedWords(dict'[d].words)
             /\ Len(dict'[d].words) = Len(dict[d].words) ]_vars

\* a flush() has written a full table of init_reserved_words words in place
C31_Witness ==
    \E d \in Engine :
       /\ Flushed(d) /\ last[d].pending /\ last[d].wrote
       /\ Len(dict[d].words) = init_reserved_words
       /\ dict[d].reserved_words = init_reserved_words
       /\ dict[d].words_sect_size = init_words_sect_size
       /\ dict[d].first_new_word = NONE

\* the byte offsets at which the files a and b differ
Changed(a, b) ==
    { p \in 0..((IF Len(a) < Len(b) THEN Len(b) ELSE Len(a)) - 1) :
        p >= Len(a) \/ p >= Len(b) \/ a[p + 1] # b[p + 1] }

\* the byte offsets a flush() in place may write in a file of the sections
\* rw and wss that held old_num words with keys of cur_len bytes and holds
\* new_num words after it: the num_words field, the slots old_num up to
\* new_num of the word index and of the def index, and the words section
\* behind the keys it held
FastPathFrame(rw, wss, old_num, new_num, cur_len) ==
    (15..18)
      \cup ((19 + 4 * old_num)..(19 + 4 * new_num - 1))
      \cup ((19 + 4 * (rw + old_num))..(19 + 4 * (rw + new_num) - 1))
      \cup ((19 + 8 * rw + cur_len)..(19 + 8 * rw + wss - 1))

\* C32: fast-path frame: a flush() that works in place changes no byte of
\* the file outside the num_words field, the index slots of the new words
\* and the words section behind the keys flushed before; the magic, the two
\* sizes, the slots and keys of the words flushed before and the defs
\* section stay as they were
C32_FastPathFrame ==
    [][ \A d \in Engine :
          FlushOfPending(d) /\ HasCapacity(dict[d]) =>
             LET old_num == NumAt(disk[d].main.bytes, 15)
             IN  Changed(disk[d].main.bytes, disk'[d].main.bytes)
                   \subseteq FastPathFrame(dict[d].reserved_words, dict[d].words_sect_size,
                                           old_num, Len(dict[d].words),
                                           WordsLen(dict[d].words, 1, old_num)) ]_vars

\* a flush() has written the word "a" in place behind the keys of a file
\* that was rewritten before: "a" is the first word in memory, and the words
\* section still starts with the key "cA"
C32_Witness ==
    \E d \in Engine :
       /\ Flushed(d) /\ last[d].pending /\ last[d].wrote
       /\ dict[d].reserved_words = 2 * init_reserved_words
       /\ dict[d].words[1].word = << 97 >>
       /\ disk[d].main.bytes[words_section_offset(dict[d].reserved_words) + 1] = 99
       /\ NumAt(disk[d].main.bytes, 15) = Len(dict[d].words)

\* ---- add_word without a flush ----

\* this step is an add_word of d that stored its word and did not flush
AddedUnflushed(d) ==
    /\ live[d] = "open" /\ live'[d] = "open"
    /\ last'[d].op = "add_word" /\ last'[d].st = "ok" /\ last'[d].ret = TRUE
    /\ Len(dict'[d].words) = Len(dict[d].words) + 1
    /\ dict'[d].first_new_word # NONE

\* C33: add_word is append-only on disk: an add_word that stores its word
\* without flushing leaves the file as it was and gives the word the def
\* offset of a word stored before (deduplication), or appends one record
\* (size, hash, payload) of the definition passed and gives the word the
\* offset of the previous end of the file in the defs section, which is not
\* negative; an add_word that returns false writes nothing
C33_AddWordAppendOnly ==
    [][ \A d \in Engine :
          LET a == disk[d].main.bytes
              b == disk'[d].main.bytes
              new == dict'[d].words[Len(dict'[d].words)]
              defs_off == defs_section_offset(dict[d].reserved_words,
                                              dict[d].words_sect_size)
          IN  /\ AddedUnflushed(d) =>
                   /\ new.word = last'[d].word
                   /\ SubSeq(dict'[d].words, 1, Len(dict[d].words)) = dict[d].words
                   /\ \/ /\ b = a
                         /\ dict[d].do_dedup
                         /\ \E i \in 1..Len(dict[d].words) :
                               dict[d].words[i].def_ind = new.def_ind
                      \/ /\ Len(b) > Len(a)
                         /\ SubSeq(b, 1, Len(a)) = a
                         /\ new.def_ind = Len(a) - defs_off
                         /\ new.def_ind >= 0
                         /\ \E def \in Defs :
                               /\ << last'[d].word, def >> \in ins'[d]
                               /\ RecordOf(b, Len(a), def)
                               /\ Len(b) = Len(a) + 12 + Len(def)
              /\ (live[d] = "open" /\ last'[d].op = "add_word"
                    /\ last'[d].st = "ok" /\ last'[d].ret = FALSE)
                   => b = a /\ dict'[d].words = dict[d].words ]_vars

\* an add_word that does not flush has appended the record of its
\* definition behind the record of a word added before it
C33_Witness ==
    \E d \in Engine :
       /\ live[d] = "open" /\ last[d].op = "add_word" /\ last[d].st = "ok" /\ last[d].ret = TRUE
       /\ last[d].wrote /\ last[d].grew
       /\ dict[d].first_new_word # NONE
       /\ Len(dict[d].words) >= 2
       /\ dict[d].words[Len(dict[d].words)].word = last[d].word
       /\ dict[d].words[Len(dict[d].words)].def_ind > 0
       /\ Len(disk[d].main.bytes)
            = defs_section_offset(dict[d].reserved_words, dict[d].words_sect_size)
                + dict[d].words[Len(dict[d].words)].def_ind + 13

(***************************************************************************)
(* The sorted prefix and the tail of new words                             *)
(***************************************************************************)
\* the word w of memory is in the index of the file b: one of the first
\* num_words slots holds the offsets of its key and of its definition
WordOnDisk(b, w) ==
    \E i \in 1..NumAt(b, 15) :
       /\ WordSlot(b, i) # 0
       /\ KeyEndsAfter(b, i, Len(w.word))
       /\ KeyOfSlot(b, i, Len(w.word)) = w.word
       /\ DefSlot(b, i) = w.def_ind + 1
IndexHolds(d) ==
    /\ ~BadHeader(disk[d].main.bytes)
    /\ NumAt(disk[d].main.bytes, 15) = Len(dict[d].words)
    /\ \A i \in 1..Len(dict[d].words) : WordOnDisk(disk[d].main.bytes, dict[d].words[i])
SortedPrefix(o) ==
    LET end == IF o.first_new_word = NONE THEN Len(o.words) ELSE o.first_new_word
    IN  \A i \in 1..(end - 1) : StrLess(o.words[i].word, o.words[i + 1].word)

\* C34: in every state of an open object the word list is sorted by key on
\* [0, first_new_word) (the whole list when first_new_word is NONE),
\* first_new_word is NONE or at most the length of the list, and
\* first_new_word is NONE exactly when every word of the list is in the
\* index of the file
C34_SortedPrefix ==
    \A d \in Engine :
       live[d] = "open" =>
          /\ dict[d].first_new_word = NONE
                \/ (0 <= dict[d].first_new_word /\ dict[d].first_new_word <= Len(dict[d].words))
          /\ SortedPrefix(dict[d])
          /\ (dict[d].first_new_word = NONE) = IndexHolds(d)

(***************************************************************************)
(* Looking up words that are not flushed                                   *)
(***************************************************************************)
\* the places of word in the list of o
PlacesOf(o, word) == { i \in 1..Len(o.words) : o.words[i].word = word }

\* C35: when add_word without a flush returns true for (k, v), then, before
\* any other call, contains(k) is true, num_words() has grown by one and
\* find(k) returns v; after every call, find_def_ind finds a key that is in
\* the sorted prefix or in the tail of new words, with the def offset
\* stored with it, and reports no key that is in neither
C35_UnflushedVisible ==
    [][ \A d \in Engine :
          /\ AddedUnflushed(d) =>
                /\ contains(dict'[d], last'[d].word)
                /\ ~contains(dict[d], last'[d].word)
                /\ num_words(dict'[d]) = num_words(dict[d]) + 1
                /\ \E def \in Defs :
                      /\ ins'[d] \ ins[d] = { << last'[d].word, def >> }
                      /\ \A check_def \in BOOLEAN :
                            LET r == find(Ctx(dict'[d], disk'[d].main, disk'[d].tmp, ndebug),
                                          last'[d].word, check_def)
                            IN  Good(r) /\ r.ret = [found |-> TRUE, def |-> def]
          /\ live'[d] = "open" =>
                \A word \in Keys \cup { FillKey(i) : i \in 1..init_reserved_words } :
                   /\ contains(dict'[d], word) = (PlacesOf(dict'[d], word) # {})
                   /\ \A i \in PlacesOf(dict'[d], word) :
                         PlacesOf(dict'[d], word) = { i }
                            => find_def_ind(dict'[d], word) = dict'[d].words[i].def_ind
      ]_vars

\* add_word without a flush has put a key behind two keys of the tail of new
\* words, the key sorts before every key of the sorted prefix, and contains
\* and find see it
C35_Witness ==
    \E d \in Engine :
       /\ live[d] = "open" /\ last[d].op = "add_word" /\ last[d].st = "ok" /\ last[d].ret = TRUE
       /\ dict[d].first_new_word # NONE
       /\ dict[d].first_new_word > 0
       /\ Len(dict[d].words) = dict[d].first_new_word + 3
       /\ dict[d].words[Len(dict[d].words)].word = last[d].word
       /\ contains(dict[d], last[d].word)
       /\ StrLess(last[d].word, dict[d].words[1].word)
       /\ FindNow(d, last[d].word).found

(***************************************************************************)
(* Deduplication while the file is rewritten                               *)
(***************************************************************************)
\* the payload word has in the file before the call
OldDef(d, word) == read_def_whole(CtxOf(d), find_def_ind(dict[d], word), FALSE).ret

\* the flush of d takes the rewrite path with deduplication and succeeds
DedupRewrite(d) ==
    FlushOfPending(d) /\ dict[d].do_dedup /\ ~HasCapacity(dict[d])

\* C36: after a flush that rewrites the file with deduplication, two words
\* have the same def offset exactly when their definitions in the old file
\* are the same bytes, and the definitions section of the new file is one
\* record per distinct payload: no payload twice, no record without a word
C36_CompactionDedupExact ==
    [][ \A d \in Engine :
          DedupRewrite(d) =>
             LET ks == { dict[d].words[i].word : i \in 1..Len(dict[d].words) }
             IN  /\ \A k1, k2 \in ks :
                       (find_def_ind(dict'[d], k1) = find_def_ind(dict'[d], k2))
                          = (OldDef(d, k1) = OldDef(d, k2))
                 /\ Len(disk'[d].main.bytes)
                       - defs_section_offset(dict'[d].reserved_words, dict'[d].words_sect_size)
                      = RecordBytes({ OldDef(d, k) : k \in ks })
      ]_vars

(***************************************************************************)
(* A key added twice before a flush                                        *)
(***************************************************************************)
\* the tail of new words of o holds a key twice
DupInTail(o) ==
    /\ o.first_new_word # NONE
    /\ \E i, j \in (o.first_new_word + 1)..Len(o.words) :
          i < j /\ o.words[i].word = o.words[j].word

\* flush() is called on d while its tail holds a key twice; the index of the
\* file has no repeated key, and no definition added was empty
FlushOfDup(d) ==
    /\ live[d] = "open" /\ live'[d] = "open"
    /\ ~dict[d].failbit
    /\ \A p \in ins[d] : p[2] # << >>
    /\ DupInTail(dict[d])
    /\ DiskIndexSound(disk[d].main.bytes)
    /\ last[d].op = "add_word" /\ last'[d].op = "flush"

\* C37: a flush of a tail that holds a key twice throws the logic error
\* "Repeated words were inserted", on the fast path and on the rewrite path,
\* and the index of the file has no repeated key afterwards
C37_DuplicateIsLogicError ==
    [][ \A d \in Engine :
          FlushOfDup(d) =>
             /\ last'[d].st = "Repeated words were inserted"
             /\ DiskIndexSound(disk'[d].main.bytes)
      ]_vars

\* what a new object reads from the file of d
Reopened(d, file) == open(Ctx(NewObject(d), file.main, file.tmp, ndebug), TRUE, d, TRUE)

\* C38: when flush throws the logic error for a repeated key, the file has
\* the bytes it had before the call, and a new object opens it and holds the
\* words flushed before
C38_FailedFlushKeepsFile ==
    [][ \A d \in Engine :
          (FlushOfDup(d) /\ last'[d].st = "Repeated words were inserted") =>
             /\ disk'[d].main.bytes = disk[d].main.bytes
             /\ Good(Reopened(d, disk[d])) => Good(Reopened(d, disk'[d]))
             /\ Good(Reopened(d, disk'[d])) =>
                   Reopened(d, disk'[d]).o.words
                      = SubSeq(dict[d].words, 1, dict[d].first_new_word)
      ]_vars

(***************************************************************************)
(* The mode the file handle is left in                                     *)
(***************************************************************************)
\* C39: on an open object the constructor and flush return with the file
\* handle read-only, a flushing add_word that has inserted returns with it
\* read-only, and so does find, whatever calls came before; only add_word
\* without a flush may leave it read+write
C39_HandleModeProtocol ==
    \A d \in Engine :
       live[d] = "open" =>
          /\ (last[d].op \in { "open", "reopen", "flush" } /\ last[d].st = "ok")
                => dict[d].file_open_type = "read"
          /\ (last[d].op = "add_word" /\ last[d].st = "ok" /\ last[d].ret = TRUE
                 /\ dict[d].first_new_word = NONE)
                => dict[d].file_open_type = "read"
          /\ \A word \in Keys, check_def \in BOOLEAN :
                LET r == find(CtxOf(d), word, check_def)
                IN  Good(r) => r.o.file_open_type = "read"

====
